---- MODULE Spec2Model ----
(***************************************************************************)
(* Model of the budgeting / investment-suggestion pipeline:                *)
(*   - the Alpha Vantage fetcher with its module-level throttle            *)
(*     (alphaVantageApi.ts, carried in src/README.md lines 122-250),       *)
(*   - the price analysis utilities (investmentCalculations.ts, carried    *)
(*     in src/unnamed/part_000),                                           *)
(*   - the loadInvestmentData effect of InvestmentCharts                   *)
(*     (src/src/app/components/InvestmentChartsNew.tsx),                   *)
(*   - the portfolio allocation and the amounts shown for it               *)
(*     (InvestmentChartsNew.tsx, InvestmentRecommendations.tsx),           *)
(*   - the budget form (src/src/app/components/FinancialPlanner.tsx).      *)
(*                                                                         *)
(* Spec is the fetcher with the components that call it; SpecParse,        *)
(* SpecAnalyze, SpecForecast, SpecPortfolio, SpecInterpolate and           *)
(* SpecReturnRate run one function on each of its inputs; SpecPlanner is   *)
(* the budget form; SpecApp is the planner page with the charts it mounts, *)
(* FairSpecApp the same under a fair event loop, clock and network.        *)
(*                                                                         *)
(* Time is the value of Date.now() in milliseconds.  JavaScript runs one   *)
(* task to completion before the next one starts: the variable `running'   *)
(* names the flow whose task is on the stack (0 when the event loop is     *)
(* idle); the clock only advances while the event loop is idle.            *)
(* Date.now() never goes back, and a timer never runs before its delay has *)
(* passed, though it may run late.                                         *)
(*                                                                         *)
(* Numbers that the code divides are exact rationals [n, d]; prices sent   *)
(* by the provider are strings of a decimal number, modelled by the        *)
(* integer count of thousandths they denote.                               *)
(***************************************************************************)
EXTENDS Integers, Sequences, FiniteSets, TLC

VARIABLES
    apiKey,        \* API_KEY is truthy (read once when the module loads)
    now,           \* Date.now()
    lastCallTime,  \* module-level `let lastCallTime'
    running,       \* flow whose task is executing, 0 = event loop idle
    mounted,       \* the InvestmentCharts instance on screen, 0 = none
    proc,          \* per flow: position in the code and locals
    comp,          \* per flow: React state of its InvestmentCharts instance
    hist,          \* per flow: observations about the current fetch call
    reqLog,        \* every network request issued: [flow, symbol, time]
    lastReturn,    \* time the most recent response was received, -1 = never
    stockReturns,  \* FinancialPlanner state set through onStockReturnsChange
    input,         \* pure-function specifications: the input under test
                   \* (SpecPlanner: formData)
    output,        \* pure-function specifications: the computed result
                   \* (SpecPlanner: showResults and remainingMoney)
    phase          \* pure-function specifications: "in" | "out" | "-"
                   \* (SpecPlanner: the handler that ran last)

vars == <<apiKey, now, lastCallTime, running, mounted, proc, comp, hist,
          reqLog, lastReturn, stockReturns, input, output, phase>>

sysVars == <<apiKey, now, lastCallTime, running, mounted, proc, comp, hist,
             reqLog, lastReturn, stockReturns>>

pureVars == <<input, output, phase>>

----------------------------------------------------------------------------
(* Bounds of the model *)

TickMs == 6000       \* granularity of the clock
MaxTicks == 4        \* the clock stops after MaxTicks ticks
MaxDates == 33       \* length of the calendar the provider's dates come from
MaxLen == 3          \* longest close series given to the analyzer alone
MaxHorizon == 30     \* longest horizon given to the forecast generator alone
MaxReturns == 4      \* longest list of returns given to the portfolio return
MaxBudget == 20      \* the budgets -MaxBudget..MaxBudget are all tried

(* Program constants *)

RATE_LIMIT_MS == 12000
SLICE_DAYS == 30
PERIODS_PER_YEAR == 12
FORECAST_DAYS == 30

\* Two flows share the throttle: the loadInvestmentData of an InvestmentCharts
\* instance, which goes on after the instance is unmounted, and the flow of
\* the instance mounted next or of another caller of the fetcher.
Flows == {1, 2}

\* Date.now() when the page loads: any value far above RATE_LIMIT_MS, so
\* that the first call of the process sees now - 0 >= RATE_LIMIT_MS.
Epoch == RATE_LIMIT_MS

MaxTime == Epoch + MaxTicks * TickMs

----------------------------------------------------------------------------
(* Exact rational arithmetic for the JavaScript numbers *)

RECURSIVE GCD(_, _)
GCD(a, b) == IF b = 0 THEN a ELSE GCD(b, a % b)

Abs(x) == IF x < 0 THEN -x ELSE x

Rat(n, d) ==
    LET s == IF d < 0 THEN -1 ELSE 1
        g == GCD(Abs(n), Abs(d))
    IN  [n |-> (s * n) \div g, d |-> (s * d) \div g]

Zero == [n |-> 0, d |-> 1]
RInt(k) == [n |-> k, d |-> 1]
RAdd(a, b) == Rat(a.n * b.d + b.n * a.d, a.d * b.d)
RSub(a, b) == Rat(a.n * b.d - b.n * a.d, a.d * b.d)
RMul(a, b) == Rat(a.n * b.n, a.d * b.d)
RDiv(a, b) == Rat(a.n * b.d, a.d * b.n)
RLe(a, b) == a.n * b.d <= b.n * a.d
RLt(a, b) == a.n * b.d < b.n * a.d

\* Math.round: the nearest integer, halves going up
MathRound(a) == (2 * a.n + a.d) \div (2 * a.d)

\* a faulty variant: Math.min is used for the high price as well
RMax_min(S) == CHOOSE x \in S : \A y \in S : RLe(x, y)

RMax(S) == CHOOSE x \in S : \A y \in S : RLe(y, x)
RMin(S) == CHOOSE x \in S : \A y \in S : RLe(x, y)

----------------------------------------------------------------------------
(* The provider's response and its normalisation                           *)
(* fetchAlphaVantageData, the part after `await fetch(url)'                *)

\* The keys of data["Time Series (Daily)"] are ISO dates "YYYY-MM-DD",
\* modelled as <<year, month, day>>.  Comparing the strings character by
\* character is comparing the triples component by component.
KeyLess(a, b) ==
    \/ a[1] < b[1]
    \/ a[1] = b[1] /\ a[2] < b[2]
    \/ a[1] = b[1] /\ a[2] = b[2] /\ a[3] < b[3]

\* Array.prototype.sort() without a comparator, on a set of distinct keys
RECURSIVE SortKeys(_)
SortKeys(S) ==
    IF S = {} THEN <<>>
    ELSE LET m == CHOOSE x \in S : \A y \in S : y = x \/ KeyLess(x, y)
         IN  <<m>> \o SortKeys(S \ {m})

\* Array.prototype.reverse()
Reverse(s) == [i \in 1..Len(s) |-> s[Len(s) + 1 - i]]

\* Array.prototype.slice(0, k)
SliceFirst(s, k) == SubSeq(s, 1, IF Len(s) < k THEN Len(s) ELSE k)

\* a faulty variant: the keys are left in ascending order (oldest first)
MostRecentFirst_noReverse(timeSeries) == SortKeys(DOMAIN timeSeries)

\* const dates = Object.keys(timeSeries).sort().reverse()
MostRecentFirst(timeSeries) == Reverse(SortKeys(DOMAIN timeSeries))

\* a faulty variant: the final reverse is forgotten (newest first)
last30Days_newestFirst(dates) == SliceFirst(dates, SLICE_DAYS)

\* const last30Days = dates.slice(0, 30).reverse()
last30Days(dates) == Reverse(SliceFirst(dates, SLICE_DAYS))

\* Math.round(parseFloat(str) * 100) / 100, str denoting milli/1000
RoundPrice(milli) == Rat(MathRound(Rat(milli * 100, 1000)), 100)

\* new Date(date).toLocaleDateString("id-ID", {month: "short", day: "numeric"})
\* keeps the day and the month of the key and drops its year
DateLabel(key) == [day |-> key[3], month |-> key[2]]

\* the body of last30Days.map(...)
PricePoint(timeSeries, date) ==
    LET dayData == timeSeries[date]
    IN  [date   |-> DateLabel(date),
         open   |-> RoundPrice(dayData.open),
         high   |-> RoundPrice(dayData.high),
         low    |-> RoundPrice(dayData.low),
         close  |-> RoundPrice(dayData.close),
         volume |-> dayData.volume]

Ok(prices) == [kind |-> "ok", error |-> "none", prices |-> prices]
Throw(e) == [kind |-> "error", error |-> e, prices |-> <<>>]

\* a faulty variant: the dates.length === 0 check is missing
NormalizeSeries_noEmptyCheck(timeSeries) ==
    LET days == last30Days(MostRecentFirst(timeSeries))
    IN  Ok([i \in 1..Len(days) |-> PricePoint(timeSeries, days[i])])

\* if (dates.length === 0) throw ...; otherwise the mapped prices
NormalizeSeries(timeSeries) ==
    LET dates == MostRecentFirst(timeSeries)
    IN  IF Len(dates) = 0 THEN Throw("empty")
        ELSE LET days == last30Days(dates)
             IN  Ok([i \in 1..Len(days) |-> PricePoint(timeSeries, days[i])])

\* a faulty variant: the time series is read before the failure shapes are checked
ClassifyData_seriesFirst(data) ==
    IF data.hasSeries THEN NormalizeSeries(data.timeSeries)
    ELSE IF data.ErrorMessage THEN Throw("provider")
    ELSE IF data.Note THEN Throw("ratelimit")
    ELSE Throw("nodata")

\* the checks on the parsed body, in the order of the code.  In data,
\* ErrorMessage / Note / hasSeries say whether data["Error Message"],
\* data.Note, data["Time Series (Daily)"] are truthy.
ClassifyData(data) ==
    IF data.ErrorMessage THEN Throw("provider")
    ELSE IF data.Note THEN Throw("ratelimit")
    ELSE IF ~data.hasSeries THEN Throw("nodata")
    ELSE NormalizeSeries(data.timeSeries)

\* what the call does with the settled fetch(url): a rejected promise and
\* a non-ok status both throw before the body is read
ProcessResponse(resp) ==
    IF resp.transport = "reject" THEN Throw("network")
    ELSE IF ~resp.ok THEN Throw("http")
    ELSE ClassifyData(resp.data)

----------------------------------------------------------------------------
(* Price analysis and forecast (investmentCalculations.ts) *)

\* a faulty variant: the guard is `startPrice === 0'
calculateMonthlyReturn_zeroOnly(startPrice, endPrice) ==
    IF startPrice = Zero THEN Zero
    ELSE RDiv(RSub(endPrice, startPrice), startPrice)

calculateMonthlyReturn(startPrice, endPrice) ==
    IF RLe(startPrice, Zero) THEN Zero
    ELSE RDiv(RSub(endPrice, startPrice), startPrice)

\* a faulty variant: the return is scaled by the days of a year over the
\* days of the period, 365 / 30, instead of by 12
annualizeReturn_byDays(thirtyDayReturn) ==
    RMul(thirtyDayReturn, Rat(365, 30))

annualizeReturn(thirtyDayReturn) ==
    RMul(thirtyDayReturn, RInt(PERIODS_PER_YEAR))

\* the record returned for historicalPrices.length === 0
EmptyAnalysis ==
    [startPrice |-> Zero, endPrice |-> Zero, monthlyReturn |-> Zero,
     monthlyCAGR |-> Zero, annualizedCAGR |-> Zero, annualizedReturn |-> Zero,
     forecastedPrice30Days |-> Zero, highPrice |-> Zero, lowPrice |-> Zero]

\* the body of analyzePriceMovement for a series with at least one point
AnalyzeNonEmpty(historicalPrices) ==
    LET startPrice == historicalPrices[1].close
        endPrice == historicalPrices[Len(historicalPrices)].close
        prices == {historicalPrices[i].close : i \in 1..Len(historicalPrices)}
        monthlyReturnDecimal == calculateMonthlyReturn(startPrice, endPrice)
        annualizedCAGR == annualizeReturn(monthlyReturnDecimal)
        monthlyForecastRate == RDiv(annualizedCAGR, RInt(12))
    IN  [startPrice |-> startPrice,
         endPrice |-> endPrice,
         monthlyReturn |-> RMul(monthlyReturnDecimal, RInt(100)),
         monthlyCAGR |-> monthlyReturnDecimal,
         annualizedCAGR |-> annualizedCAGR,
         annualizedReturn |-> RMul(annualizedCAGR, RInt(100)),
         forecastedPrice30Days |->
             RMul(endPrice, RAdd(RInt(1), monthlyForecastRate)),
         highPrice |-> RMax(prices),
         lowPrice |-> RMin(prices)]

\* a faulty variant: the length check is missing and the closes are read with
\* `?.close ?? 0'; Math.max() and Math.min() of no argument are -Infinity
\* and Infinity, written -1/0 and 1/0
analyzePriceMovement_noGuard(historicalPrices) ==
    IF Len(historicalPrices) = 0
    THEN [EmptyAnalysis EXCEPT !.highPrice = [n |-> -1, d |-> 0],
                               !.lowPrice = [n |-> 1, d |-> 0]]
    ELSE AnalyzeNonEmpty(historicalPrices)

analyzePriceMovement(historicalPrices) ==
    IF Len(historicalPrices) = 0 THEN EmptyAnalysis
    ELSE AnalyzeNonEmpty(historicalPrices)

\* a faulty variant: the growth is measured from the end of the horizon
ForecastPoint_fromEnd(currentPrice, monthlyRate, i, days) ==
    LET growthFactor == RDiv(RMul(monthlyRate, RInt(days - i)), RInt(days))
        projectedPrice == RMul(currentPrice, RAdd(RInt(1), growthFactor))
    IN  [date |-> i, price |-> MathRound(projectedPrice)]

\* one point of generateForecastData; the label of the date i days from
\* today is kept as the day offset i
ForecastPoint(currentPrice, monthlyRate, i, days) ==
    LET growthFactor == RDiv(RMul(monthlyRate, RInt(i)), RInt(days))
        projectedPrice == RMul(currentPrice, RAdd(RInt(1), growthFactor))
    IN  [date |-> i, price |-> MathRound(projectedPrice)]

generateForecastData(currentPrice, annualizedCAGR, days) ==
    LET monthlyRate == RDiv(annualizedCAGR, RInt(12))
    IN  [k \in 1..(days + 1) |->
            ForecastPoint(currentPrice, monthlyRate, k - 1, days)]

----------------------------------------------------------------------------
(* Portfolio allocation, portfolio return and the amounts displayed *)

\* the three entries of one case of getPortfolioAllocation
Allocation(spy, jnj, aapl) ==
    << [name |-> "S&P 500 Index (SPY)", weight |-> spy, riskLevel |-> "Low"],
       [name |-> "Johnson & Johnson (JNJ)", weight |-> jnj,
        riskLevel |-> "Low"],
       [name |-> "Apple (AAPL)", weight |-> aapl, riskLevel |-> "High"] >>

\* a faulty variant: the aggressive weights are 0.3, 0.4, 0.4
getPortfolioAllocation_unnormalised(riskProfile) ==
    CASE riskProfile = "conservative" ->
             Allocation(Rat(5, 10), Rat(3, 10), Rat(2, 10))
      [] riskProfile = "balanced" ->
             Allocation(Rat(40, 100), Rat(35, 100), Rat(25, 100))
      [] riskProfile = "aggressive" ->
             Allocation(Rat(3, 10), Rat(4, 10), Rat(4, 10))
      [] OTHER -> <<>>

getPortfolioAllocation(riskProfile) ==
    CASE riskProfile = "conservative" ->
             Allocation(Rat(5, 10), Rat(3, 10), Rat(2, 10))
      [] riskProfile = "balanced" ->
             Allocation(Rat(40, 100), Rat(35, 100), Rat(25, 100))
      [] riskProfile = "aggressive" ->
             Allocation(Rat(3, 10), Rat(4, 10), Rat(3, 10))
      [] OTHER -> <<>>

\* name.includes(ticker) for the names of Allocation
NameIncludes(name, ticker) ==
    <<name, ticker>> \in {<<"S&P 500 Index (SPY)", "SPY">>,
                          <<"Johnson & Johnson (JNJ)", "JNJ">>,
                          <<"Apple (AAPL)", "AAPL">>}

\* allocations.find((a) => a.name.includes(ticker))?.weight || 0
WeightOf(allocations, ticker) ==
    LET hits == {i \in 1..Len(allocations) :
                    NameIncludes(allocations[i].name, ticker)}
    IN  IF hits = {} THEN Zero
        ELSE allocations[CHOOSE i \in hits : \A j \in hits : i <= j].weight

\* the weighted sum of calculatePortfolioReturnByProfile, past its guard;
\* returns is the parameter stockReturns
WeightedReturn(riskProfile, returns) ==
    LET allocations == getPortfolioAllocation(riskProfile)
        spyReturn == returns[1]
        jnjReturn == returns[2]
        aaplReturn == returns[3]
        spyWeight == WeightOf(allocations, "SPY")
        jnjWeight == WeightOf(allocations, "JNJ")
        aaplWeight == WeightOf(allocations, "AAPL")
        portfolioReturn ==
            RAdd(RAdd(RMul(RDiv(spyReturn, RInt(100)), spyWeight),
                      RMul(RDiv(jnjReturn, RInt(100)), jnjWeight)),
                 RMul(RDiv(aaplReturn, RInt(100)), aaplWeight))
    IN  RMul(portfolioReturn, RInt(100))

\* a faulty variant: the guard is `stockReturns.length !== 3'
calculatePortfolioReturnByProfile_exactlyThree(riskProfile, returns) ==
    IF Len(returns) # 3 THEN Zero
    ELSE WeightedReturn(riskProfile, returns)

calculatePortfolioReturnByProfile(riskProfile, returns) ==
    IF Len(returns) < 3 THEN Zero
    ELSE WeightedReturn(riskProfile, returns)

\* formatIDR: no fraction digits, halves away from 0; the text is kept as
\* the whole number it shows
formatIDR(value) ==
    IF value.n >= 0 THEN MathRound(value)
    ELSE -MathRound([n |-> -value.n, d |-> value.d])

\* InvestmentCharts, "Suggested Investment Amount": the amounts of the
\* first three allocations, rendered for a positive budget only
ChartAmounts(riskProfile, remainingMoney) ==
    LET portfolioAllocations == getPortfolioAllocation(riskProfile)
        shown == SliceFirst(portfolioAllocations, 3)
    IN  IF remainingMoney > 0
        THEN [k \in 1..Len(shown) |->
                 LET amount == RMul(RInt(remainingMoney), shown[k].weight)
                 IN  [name |-> shown[k].name, amount |-> amount,
                      text |-> formatIDR(amount)]]
        ELSE <<>>

\* one option of allocationOptions
Option(profile, spy, jnj, aapl) ==
    [profile |-> profile,
     allocations |->
        << [name |-> "S&P 500 Index (SPY)", symbol |-> "SPY",
            percentage |-> spy],
           [name |-> "Johnson & Johnson (JNJ)", symbol |-> "JNJ",
            percentage |-> jnj],
           [name |-> "Apple (AAPL)", symbol |-> "AAPL",
            percentage |-> aapl] >>]

\* a faulty variant: the high-risk percentages are 30, 40, 40
allocationOptions_overfull ==
    << Option("low", 50, 30, 20), Option("medium", 40, 35, 25),
       Option("high", 30, 40, 40) >>

\* allocationOptions of InvestmentRecommendations
allocationOptions ==
    << Option("low", 50, 30, 20), Option("medium", 40, 35, 25),
       Option("high", 30, 40, 30) >>

\* allocationOptions.find((opt) => opt.profile === selectedProfile)
selectedAllocation(selectedProfile) ==
    allocationOptions[CHOOSE i \in 1..Len(allocationOptions) :
                         /\ allocationOptions[i].profile = selectedProfile
                         /\ \A j \in 1..(i - 1) :
                               allocationOptions[j].profile # selectedProfile]

\* allocationData of InvestmentRecommendations
allocationData(selectedProfile, remainingMoney) ==
    LET allocations == selectedAllocation(selectedProfile).allocations
    IN  [k \in 1..Len(allocations) |->
            [name |-> allocations[k].name,
             symbol |-> allocations[k].symbol,
             percentage |-> allocations[k].percentage,
             value |-> MathRound(RMul(RInt(remainingMoney),
                           RDiv(RInt(allocations[k].percentage),
                                RInt(100))))]]

----------------------------------------------------------------------------
(* The throttle, fetchAlphaVantageData and loadInvestmentData as steps *)

\* defaultInvestments of InvestmentCharts, in the order of the loop
defaultInvestments ==
    << [symbol |-> "SPY", riskLevel |-> "Low"],
       [symbol |-> "JNJ", riskLevel |-> "Low"],
       [symbol |-> "AAPL", riskLevel |-> "High"] >>

\* the symbol another caller asks for (the example of the error message)
DirectSymbols == {"MSFT"}

\* the day data the provider sends for a date: prices in thousandths
DayData(key) ==
    LET base == 100000 + 1000 * key[3] + 4 * key[2]
    IN  [open |-> base - 500, high |-> base + 1500, low |-> base - 1500,
         close |-> base + 5, volume |-> 1000 + key[3]]

TimeSeriesOf(S) == [k \in S |-> DayData(k)]

\* the bodies a response can carry
DataWith(e, n, h, S) ==
    [ErrorMessage |-> e, Note |-> n, hasSeries |-> h,
     timeSeries |-> TimeSeriesOf(S)]

HttpOk(data) == [transport |-> "ok", ok |-> TRUE, data |-> data]
HttpFail == [transport |-> "ok", ok |-> FALSE, data |-> DataWith(FALSE, FALSE, FALSE, {})]
Rejected == [transport |-> "reject", ok |-> FALSE, data |-> DataWith(FALSE, FALSE, FALSE, {})]

TwoDays == {<<2024, 1, 2>>, <<2024, 1, 3>>}

\* the responses the network gives in the system specification
SysResponses ==
    {HttpFail}
    \cup {HttpOk(DataWith(e, n, TRUE, S)) :
            e \in BOOLEAN, n \in BOOLEAN, S \in {{}, TwoDays}}

\* a faulty variant: the elapsed time is counted twice
WaitTime_short(timeSinceLastCall) == RATE_LIMIT_MS - 2 * timeSinceLastCall

\* const waitTime = RATE_LIMIT_MS - timeSinceLastCall
WaitTime(timeSinceLastCall) == RATE_LIMIT_MS - timeSinceLastCall

\* a faulty variant: the throttle never waits
MustWait_never(timeSinceLastCall) == FALSE

\* a faulty variant: the timer is set on every call
MustWait_always(timeSinceLastCall) == TRUE

\* if (timeSinceLastCall < RATE_LIMIT_MS)
MustWait(timeSinceLastCall) == timeSinceLastCall < RATE_LIMIT_MS

NoResult == [kind |-> "none", error |-> "none", prices |-> <<>>]

\* no response held
NoResponse == [transport |-> "none", ok |-> FALSE,
               data |-> DataWith(FALSE, FALSE, FALSE, {})]

InitProc ==
    [pc |-> "idle", kind |-> "none", idx |-> 0, symbol |-> "none",
     wakeAt |-> 0, response |-> NoResponse, result |-> NoResult,
     loadedInvestments |-> <<>>]

\* a faulty variant: the component does not look at the configuration
isAlphaVantageConfigured_always == TRUE

\* return !!API_KEY
isAlphaVantageConfigured == apiKey

\* a faulty variant: the key is not checked on entry
KeyMissing_never == FALSE

\* if (!API_KEY)
KeyMissing == ~apiKey

\* useState([]), useState(true), useState(null)
\* the state of a new InvestmentCharts
InitComp ==
    [investments |-> <<>>, loading |-> TRUE, error |-> "null",
     portfolioAllocations |-> <<>>, selectedRiskProfile |-> "balanced",
     portfolioReturn |-> Zero]

\* a faulty variant: the return is computed once and kept
ProfileEffect_stale(c) ==
    [c EXCEPT
       !.portfolioAllocations = getPortfolioAllocation(c.selectedRiskProfile),
       !.portfolioReturn =
           IF Len(c.investments) > 0 /\ c.portfolioReturn = Zero
           THEN calculatePortfolioReturnByProfile(c.selectedRiskProfile,
                    [i \in 1..Len(c.investments) |->
                        c.investments[i].expectedReturn])
           ELSE @]

\* useEffect(..., [selectedRiskProfile, investments]) on the state c
ProfileEffect(c) ==
    [c EXCEPT
       !.portfolioAllocations = getPortfolioAllocation(c.selectedRiskProfile),
       !.portfolioReturn =
           IF Len(c.investments) > 0
           THEN calculatePortfolioReturnByProfile(c.selectedRiskProfile,
                    [i \in 1..Len(c.investments) |->
                        c.investments[i].expectedReturn])
           ELSE @]

InitHist ==
    [called |-> <<>>,     \* symbols the flow has called the fetcher with
     callbacks |-> 0,     \* calls of onStockReturnsChange
     reqTimes |-> <<>>,   \* times of the flow's network requests
     \* about the call in progress, reset when its caller resumes:
     writes |-> 0,        \* assignments to lastCallTime
     requests |-> 0,      \* network requests
     callAt |-> 0,        \* time the call was made
     readLast |-> 0,      \* lastCallTime as read by waitForRateLimit
     returnSeen |-> -1,   \* lastReturn when the call was made
     slept |-> FALSE]     \* the call waited on the timer

\* the per-call observations are dropped when the caller resumes
EndCall(h) ==
    [h EXCEPT !.writes = 0, !.requests = 0, !.callAt = 0, !.readLast = 0,
              !.returnSeen = -1, !.slept = FALSE]

InitPure == input = <<>> /\ output = <<>> /\ phase = "-"

Init ==
    /\ apiKey \in BOOLEAN
    /\ now = Epoch
    /\ lastCallTime = 0
    /\ running = 0
    /\ mounted = 0
    /\ proc = [f \in Flows |-> InitProc]
    /\ comp = [f \in Flows |-> InitComp]
    /\ hist = [f \in Flows |-> InitHist]
    /\ reqLog = <<>>
    /\ lastReturn = -1
    /\ stockReturns = <<>>
    /\ InitPure

\* flows are taken in the order of their numbers
NextFree(f) ==
    /\ proc[f].pc = "idle"
    /\ \A g \in Flows : g < f => proc[g].pc # "idle"

\* the clock advances while no task runs
Tick ==
    /\ running = 0
    /\ now + TickMs <= MaxTime
    /\ now' = now + TickMs
    /\ UNCHANGED <<apiKey, lastCallTime, running, mounted, proc, comp, hist,
                   reqLog, lastReturn, stockReturns, pureVars>>

\* a faulty variant: without a key the error is set and loading is left on
MountCharts_keepsLoading(f) ==
    /\ running = 0
    /\ mounted = 0
    /\ NextFree(f)
    /\ mounted' = f
    /\ IF ~isAlphaVantageConfigured
       THEN /\ comp' = [comp EXCEPT
                           ![f] = ProfileEffect([@ EXCEPT !.error = "config"])]
            /\ proc' = [proc EXCEPT ![f].pc = "done", ![f].kind = "load"]
            /\ running' = 0
       ELSE /\ comp' = [comp EXCEPT
                           ![f] = ProfileEffect([@ EXCEPT !.loading = TRUE,
                                                          !.error = "null"])]
            /\ proc' = [proc EXCEPT ![f].pc = "call", ![f].kind = "load",
                                    ![f].idx = 1,
                                    ![f].symbol = defaultInvestments[1].symbol,
                                    ![f].loadedInvestments = <<>>]
            /\ running' = f
    /\ UNCHANGED <<apiKey, now, lastCallTime, hist, reqLog, lastReturn,
                   stockReturns>>

\* InvestmentCharts is mounted: useEffect runs loadInvestmentData up to its
\* first call of fetchAlphaVantageData
MountCharts(f) ==
    /\ running = 0
    /\ mounted = 0
    /\ NextFree(f)
    /\ mounted' = f
    /\ IF ~isAlphaVantageConfigured
       THEN /\ comp' = [comp EXCEPT
                           ![f] = ProfileEffect([@ EXCEPT !.loading = FALSE,
                                                          !.error = "config"])]
            /\ proc' = [proc EXCEPT ![f].pc = "done", ![f].kind = "load"]
            /\ running' = 0
       ELSE /\ comp' = [comp EXCEPT
                           ![f] = ProfileEffect([@ EXCEPT !.loading = TRUE,
                                                          !.error = "null"])]
            /\ proc' = [proc EXCEPT ![f].pc = "call", ![f].kind = "load",
                                    ![f].idx = 1,
                                    ![f].symbol = defaultInvestments[1].symbol,
                                    ![f].loadedInvestments = <<>>]
            /\ running' = f
    /\ UNCHANGED <<apiKey, now, lastCallTime, hist, reqLog, lastReturn,
                   stockReturns>>

Mount(f) == MountCharts(f) /\ UNCHANGED pureVars

\* a faulty variant: leaving the screen abandons the load
UnmountCharts_cancel ==
    /\ running = 0
    /\ mounted # 0
    /\ mounted' = 0
    /\ proc' = [proc EXCEPT ![mounted] =
                    IF @.pc = "done" THEN @
                    ELSE [@ EXCEPT !.pc = "done", !.loadedInvestments = <<>>,
                                   !.response = NoResponse]]
    /\ hist' = [hist EXCEPT ![mounted] = EndCall(@)]
    /\ UNCHANGED <<apiKey, now, lastCallTime, running, comp,
                   reqLog, lastReturn, stockReturns>>

\* InvestmentCharts leaves the screen; nothing cancels its flow
UnmountCharts ==
    /\ running = 0
    /\ mounted # 0
    /\ mounted' = 0
    /\ UNCHANGED <<apiKey, now, lastCallTime, running, proc, comp, hist,
                   reqLog, lastReturn, stockReturns>>

Unmount == UnmountCharts /\ UNCHANGED pureVars

\* any other caller of the exported fetchAlphaVantageData(symbol)
DirectCall(f, symbol) ==
    /\ running = 0
    /\ NextFree(f)
    /\ proc' = [proc EXCEPT ![f].pc = "call", ![f].kind = "direct",
                            ![f].symbol = symbol]
    /\ running' = f
    /\ UNCHANGED <<apiKey, now, lastCallTime, mounted, comp, hist, reqLog,
                   lastReturn, stockReturns, pureVars>>

\* fetchAlphaVantageData is entered: if (!API_KEY) throw
FetchEnter(f) ==
    /\ running = f
    /\ proc[f].pc = "call"
    /\ hist' = [hist EXCEPT ![f].called = Append(@, proc[f].symbol),
                            ![f].writes = 0,
                            ![f].requests = 0, ![f].callAt = now,
                            ![f].returnSeen = lastReturn,
                            ![f].slept = FALSE]
    /\ IF KeyMissing
       THEN proc' = [proc EXCEPT ![f].pc = "returned",
                                 ![f].result = Throw("config")]
       ELSE proc' = [proc EXCEPT ![f].pc = "throttle",
                                 ![f].result = NoResult]
    /\ UNCHANGED <<apiKey, now, lastCallTime, running, mounted, comp, reqLog,
                   lastReturn, stockReturns, pureVars>>

\* waitForRateLimit up to its await: the elapsed time is read once and the
\* timer, if any, is set for the remainder
WaitForRateLimit(f) ==
    /\ running = f
    /\ proc[f].pc = "throttle"
    /\ LET timeSinceLastCall == now - lastCallTime
       IN  IF MustWait(timeSinceLastCall)
           THEN /\ proc' = [proc EXCEPT
                              ![f].pc = "sleeping",
                              ![f].wakeAt = now + WaitTime(timeSinceLastCall)]
                /\ hist' = [hist EXCEPT ![f].readLast = lastCallTime,
                                        ![f].slept = TRUE]
                /\ running' = 0
           ELSE /\ proc' = [proc EXCEPT ![f].pc = "stamp"]
                /\ hist' = [hist EXCEPT ![f].readLast = lastCallTime]
                /\ running' = f
    /\ UNCHANGED <<apiKey, now, lastCallTime, mounted, comp, reqLog,
                   lastReturn, stockReturns, pureVars>>

\* the setTimeout callback runs, not before its delay has passed
TimerFire(f) ==
    /\ running = 0
    /\ proc[f].pc = "sleeping"
    /\ now >= proc[f].wakeAt
    /\ proc' = [proc EXCEPT ![f].pc = "stamp", ![f].wakeAt = 0]
    /\ running' = f
    /\ UNCHANGED <<apiKey, now, lastCallTime, mounted, comp, hist, reqLog,
                   lastReturn, stockReturns, pureVars>>

\* a faulty variant: the assignment sits inside the if block, so a call that did
\* not wait does not record its time
Stamp_onlyAfterWait(f) ==
    /\ running = f
    /\ proc[f].pc = "stamp"
    /\ lastCallTime' = IF hist[f].slept THEN now ELSE lastCallTime
    /\ proc' = [proc EXCEPT ![f].pc = "issue"]
    /\ hist' = [hist EXCEPT ![f].writes = IF hist[f].slept THEN @ + 1 ELSE @]
    /\ UNCHANGED <<apiKey, now, running, mounted, comp, reqLog, lastReturn,
                   stockReturns, pureVars>>

\* lastCallTime = Date.now(), the last statement of waitForRateLimit
Stamp(f) ==
    /\ running = f
    /\ proc[f].pc = "stamp"
    /\ lastCallTime' = now
    /\ proc' = [proc EXCEPT ![f].pc = "issue"]
    /\ hist' = [hist EXCEPT ![f].writes = @ + 1]
    /\ UNCHANGED <<apiKey, now, running, mounted, comp, reqLog, lastReturn,
                   stockReturns, pureVars>>

\* fetch(url): the request leaves, the call awaits the response
Issue(f) ==
    /\ running = f
    /\ proc[f].pc = "issue"
    /\ reqLog' = Append(reqLog, [flow |-> f, symbol |-> proc[f].symbol,
                                 time |-> now])
    /\ proc' = [proc EXCEPT ![f].pc = "inflight"]
    /\ hist' = [hist EXCEPT ![f].requests = @ + 1,
                            ![f].reqTimes = Append(@, now)]
    /\ running' = 0
    /\ UNCHANGED <<apiKey, now, lastCallTime, mounted, comp, lastReturn,
                   stockReturns, pureVars>>

\* the response (or the transport failure) arrives and the call returns or
\* throws what ProcessResponse makes of it
Respond(f, resp) ==
    /\ running = 0
    /\ proc[f].pc = "inflight"
    /\ proc' = [proc EXCEPT ![f].pc = "returned",
                            ![f].response = resp,
                            ![f].result = ProcessResponse(resp)]
    /\ lastReturn' = now
    /\ running' = f
    /\ UNCHANGED <<apiKey, now, lastCallTime, mounted, comp, hist, reqLog,
                   stockReturns, pureVars>>

\* the body of the loop after `await fetchAlphaVantageData(...)' for a
\* series with at least one point
LoadedInvestment(investment, historicalData) ==
    LET priceAnalysis ==
            analyzePriceMovement([i \in 1..Len(historicalData) |->
                                     [close |-> historicalData[i].close]])
        currentPrice == historicalData[Len(historicalData)].close
    IN  [symbol |-> investment.symbol,
         currentPrice |-> currentPrice,
         expectedPrice |-> priceAnalysis.forecastedPrice30Days,
         expectedReturn |-> priceAnalysis.annualizedReturn,
         riskLevel |-> investment.riskLevel,
         historicalData |-> historicalData,
         forecastData |-> generateForecastData(currentPrice,
                              priceAnalysis.annualizedCAGR, FORECAST_DAYS),
         priceAnalysis |-> priceAnalysis]

\* a faulty variant: after a rate-limit notice the same symbol is fetched again
LoadFail_retry(f, msg) ==
    /\ IF msg = "ratelimit"
       THEN /\ proc' = [proc EXCEPT ![f].pc = "call", ![f].result = NoResult,
                                    ![f].response = NoResponse]
            /\ running' = f
            /\ UNCHANGED comp
       ELSE /\ comp' = [comp EXCEPT ![f].error = msg, ![f].loading = FALSE]
            /\ proc' = [proc EXCEPT ![f].pc = "done", ![f].result = NoResult,
                                    ![f].response = NoResponse,
                                    ![f].loadedInvestments = <<>>]
            /\ running' = 0
    /\ hist' = [hist EXCEPT ![f] = EndCall(@)]
    /\ UNCHANGED stockReturns

\* the argument of onStockReturnsChange: loadedInvestments.map(...)
StockReturnsOf(loadedInvestments) ==
    [i \in 1..Len(loadedInvestments) |->
        [symbol |-> loadedInvestments[i].symbol,
         monthlyReturn |-> loadedInvestments[i].priceAnalysis.monthlyReturn]]

\* a faulty variant: the catch block skips the symbol and the loop goes on
LoadFail_skip(f, msg) ==
    LET loaded == proc[f].loadedInvestments
    IN  IF proc[f].idx < Len(defaultInvestments)
        THEN /\ proc' = [proc EXCEPT
                   ![f].pc = "call", ![f].result = NoResult,
                   ![f].response = NoResponse, ![f].idx = @ + 1,
                   ![f].symbol = defaultInvestments[proc[f].idx + 1].symbol]
             /\ hist' = [hist EXCEPT ![f] = EndCall(@)]
             /\ UNCHANGED <<comp, stockReturns, running>>
        ELSE /\ comp' = [comp EXCEPT ![f] =
                    IF Len(loaded) = 0
                    THEN [@ EXCEPT !.error = msg, !.loading = FALSE]
                    ELSE ProfileEffect([@ EXCEPT !.investments = loaded,
                                                 !.loading = FALSE])]
             /\ stockReturns' =
                    IF Len(loaded) = 0 THEN stockReturns
                    ELSE StockReturnsOf(loaded)
             /\ hist' = [hist EXCEPT ![f] =
                            [EndCall(@) EXCEPT !.callbacks =
                                IF Len(loaded) = 0 THEN @ ELSE @ + 1]]
             /\ proc' = [proc EXCEPT ![f].pc = "done", ![f].result = NoResult,
                            ![f].response = NoResponse,
                            ![f].loadedInvestments = <<>>]
             /\ running' = 0

\* a faulty variant: the catch block publishes what was loaded so far
LoadFail_partial(f, msg) ==
    /\ comp' = [comp EXCEPT ![f].error = msg, ![f].loading = FALSE,
                            ![f].investments = proc[f].loadedInvestments]
    /\ proc' = [proc EXCEPT ![f].pc = "done", ![f].result = NoResult,
                            ![f].response = NoResponse,
                            ![f].loadedInvestments = <<>>]
    /\ hist' = [hist EXCEPT ![f] = EndCall(@)]
    /\ running' = 0
    /\ UNCHANGED stockReturns

\* the catch block of the loop: setError, setLoading(false), return
LoadFail(f, msg) ==
    /\ comp' = [comp EXCEPT ![f].error = msg, ![f].loading = FALSE]
    /\ proc' = [proc EXCEPT ![f].pc = "done", ![f].result = NoResult,
                            ![f].response = NoResponse,
                            ![f].loadedInvestments = <<>>]
    /\ hist' = [hist EXCEPT ![f] = EndCall(@)]
    /\ running' = 0
    /\ UNCHANGED stockReturns

\* loadInvestmentData resumes with the outcome of its fetch
LoadContinue(f) ==
    /\ running = f
    /\ proc[f].pc = "returned"
    /\ proc[f].kind = "load"
    /\ LET r == proc[f].result
           investment == defaultInvestments[proc[f].idx]
       IN  IF r.kind # "ok"
           THEN LoadFail(f, r.error)
           ELSE IF Len(r.prices) = 0
           THEN \* historicalData[-1].close throws a TypeError
                LoadFail(f, "TypeError")
           ELSE LET loaded == Append(proc[f].loadedInvestments,
                                     LoadedInvestment(investment, r.prices))
                IN  IF proc[f].idx < Len(defaultInvestments)
                    THEN /\ proc' = [proc EXCEPT
                               ![f].pc = "call",
                               ![f].result = NoResult,
                               ![f].response = NoResponse,
                               ![f].idx = @ + 1,
                               ![f].symbol =
                                   defaultInvestments[proc[f].idx + 1].symbol,
                               ![f].loadedInvestments = loaded]
                         /\ hist' = [hist EXCEPT ![f] = EndCall(@)]
                         /\ UNCHANGED <<comp, stockReturns, running>>
                    ELSE IF Len(loaded) = 0
                    THEN LoadFail(f, "nothing loaded")
                    ELSE /\ comp' = [comp EXCEPT ![f] =
                                    LET c == [@ EXCEPT !.investments = loaded,
                                                       !.loading = FALSE]
                                    IN  IF mounted = f THEN ProfileEffect(c)
                                        ELSE c]
                         /\ stockReturns' = StockReturnsOf(loaded)
                         /\ hist' = [hist EXCEPT
                                        ![f] = [EndCall(@) EXCEPT
                                                  !.callbacks = @ + 1]]
                         /\ proc' = [proc EXCEPT ![f].pc = "done",
                                        ![f].result = NoResult,
                                        ![f].response = NoResponse,
                                        ![f].loadedInvestments = <<>>]
                         /\ running' = 0
    /\ UNCHANGED <<apiKey, now, lastCallTime, mounted, reqLog, lastReturn,
                   pureVars>>

\* the direct caller receives the value or the error
DirectReturn(f) ==
    /\ running = f
    /\ proc[f].pc = "returned"
    /\ proc[f].kind = "direct"
    /\ proc' = [proc EXCEPT ![f].pc = "done", ![f].response = NoResponse]
    /\ hist' = [hist EXCEPT ![f] = EndCall(@)]
    /\ running' = 0
    /\ UNCHANGED <<apiKey, now, lastCallTime, mounted, comp, reqLog,
                   lastReturn, stockReturns, pureVars>>

Next ==
    \/ Tick
    \/ Unmount
    \/ \E f \in Flows : Mount(f)
    \/ \E f \in Flows, symbol \in DirectSymbols : DirectCall(f, symbol)
    \/ \E f \in Flows : FetchEnter(f)
    \/ \E f \in Flows : WaitForRateLimit(f)
    \/ \E f \in Flows : TimerFire(f)
    \/ \E f \in Flows : Stamp(f)
    \/ \E f \in Flows : Issue(f)
    \/ \E f \in Flows, resp \in SysResponses : Respond(f, resp)
    \/ \E f \in Flows : LoadContinue(f)
    \/ \E f \in Flows : DirectReturn(f)

Spec == Init /\ [][Next]_vars

----------------------------------------------------------------------------
(* Properties of the throttle and of the fetch sequence (Spec) *)

LastOf(s) == s[Len(s)]

\* C1: within one flow that awaits each call before making the next, two
\* consecutive network requests are at least RATE_LIMIT_MS apart, and the
\* third request is at least 2 * RATE_LIMIT_MS after the first.
C1_SequentialSpacing ==
    \A f \in Flows :
        LET t == hist[f].reqTimes
        IN  /\ \A i \in 1..(Len(t) - 1) : t[i + 1] - t[i] >= RATE_LIMIT_MS
            /\ Len(t) >= 3 => t[3] - t[1] >= 2 * RATE_LIMIT_MS

\* a load has issued its third request while the other flow was active too
C1_Witness ==
    \E f \in Flows :
        /\ proc[f].kind = "load"
        /\ Len(hist[f].reqTimes) = 3
        /\ \E g \in Flows \ {f} : Len(hist[g].reqTimes) >= 1

\* C2: any two network requests, of whatever flow and symbol, are at least
\* RATE_LIMIT_MS apart.
C2_GlobalSpacing ==
    \A i, j \in 1..Len(reqLog) :
        i < j => reqLog[j].time - reqLog[i].time >= RATE_LIMIT_MS

\* C3: a call that passed the credential check writes lastCallTime exactly
\* once, after its wait has ended and before its request is issued, whether
\* the request then succeeds or fails; a call rejected for the missing
\* credential never writes it.
C3_StampOncePerCall ==
    \A f \in Flows :
        LET h == hist[f]
            pc == proc[f].pc
        IN  /\ pc \in {"throttle", "sleeping", "stamp"} =>
                   h.writes = 0 /\ h.requests = 0
            /\ pc = "issue" =>
                   /\ h.writes = 1 /\ h.requests = 0
                   /\ lastCallTime = now
                   /\ h.slept => now >= h.readLast + RATE_LIMIT_MS
            /\ pc = "inflight" => h.writes = 1 /\ h.requests = 1
            /\ pc = "returned" =>
                   IF proc[f].result.error = "config"
                   THEN h.writes = 0
                   ELSE h.writes = 1

\* a call that waited and whose request failed has written once, and a call
\* that did not wait has written once
C3_Witness ==
    /\ \E f \in Flows :
        /\ proc[f].pc = "returned"
        /\ proc[f].result.error = "http"
        /\ hist[f].slept
        /\ hist[f].writes = 1
    /\ \E g \in Flows :
        /\ proc[g].pc = "inflight"
        /\ ~hist[g].slept
        /\ hist[g].writes = 1

\* C4, as stated: a call made less than RATE_LIMIT_MS after the previous
\* call returned waits until RATE_LIMIT_MS have passed since that return
\* before it issues its request.
C4_WaitsSinceReturn ==
    \A f \in Flows :
        LET h == hist[f]
        IN  (/\ proc[f].pc = "inflight"
             /\ h.returnSeen >= 0
             /\ h.callAt - h.returnSeen < RATE_LIMIT_MS)
            => (/\ h.slept
                /\ LastOf(h.reqTimes) >= h.returnSeen + RATE_LIMIT_MS)

\* C4, amended: a call made less than RATE_LIMIT_MS after lastCallTime (the
\* time written by the previous call just before its request left) waits
\* until RATE_LIMIT_MS have passed since lastCallTime before it issues its
\* request.
C4_WaitsSinceStamp ==
    \A f \in Flows :
        LET h == hist[f]
        IN  (/\ proc[f].pc = "inflight"
             /\ h.callAt - h.readLast < RATE_LIMIT_MS)
            => (/\ h.slept
                /\ LastOf(h.reqTimes) >= h.readLast + RATE_LIMIT_MS)

\* a call made half a period after the previous stamp, after the previous
\* call had returned, has waited and issued its request
C4_Witness ==
    \E f \in Flows :
        /\ proc[f].pc = "inflight"
        /\ hist[f].returnSeen >= 0
        /\ hist[f].callAt - hist[f].readLast = TickMs
        /\ TickMs < RATE_LIMIT_MS
        /\ hist[f].slept

\* C5: without an API key the fetcher throws the configuration error
\* without waiting, without a request and without touching lastCallTime,
\* and loadInvestmentData sets the error, leaves loading false and never
\* calls the fetcher.
C5_NoKeyFailsFast ==
    ~apiKey =>
        /\ lastCallTime = 0
        /\ reqLog = <<>>
        /\ \A f \in Flows :
            /\ proc[f].pc \notin {"throttle", "sleeping", "stamp", "issue",
                                  "inflight"}
            /\ proc[f].pc = "returned" =>
                   /\ proc[f].result = Throw("config")
                   /\ ~hist[f].slept
                   /\ hist[f].requests = 0
            /\ proc[f].kind = "load" =>
                   /\ proc[f].pc = "done"
                   /\ comp[f].error = "config"
                   /\ comp[f].loading = FALSE
                   /\ hist[f].called = <<>>

\* without a key a component was mounted and a direct call was rejected
C5_Witness ==
    /\ ~apiKey
    /\ \E f \in Flows : proc[f].kind = "load" /\ proc[f].pc = "done"
    /\ \E g \in Flows :
        /\ proc[g].kind = "direct"
        /\ proc[g].pc = "returned"
        /\ proc[g].result.error = "config"

\* C7: the fetcher never returns an empty series: a body that passes the
\* checks and holds no date makes the call throw the empty-result error,
\* and every series returned or published has at least one point.
C7_NeverEmptySuccess ==
    \A f \in Flows :
        /\ proc[f].result.kind = "ok" => Len(proc[f].result.prices) >= 1
        /\ (/\ proc[f].pc = "returned"
            /\ proc[f].response.transport = "ok"
            /\ proc[f].response.ok
            /\ ~proc[f].response.data.ErrorMessage
            /\ ~proc[f].response.data.Note
            /\ proc[f].response.data.hasSeries
            /\ DOMAIN proc[f].response.data.timeSeries = {})
           => /\ proc[f].result.kind = "error"
              /\ proc[f].result.error = "empty"
        /\ \A i \in 1..Len(comp[f].investments) :
               Len(comp[f].investments[i].historicalData) >= 1

\* a call has thrown on a body with an empty time series, and another has
\* returned a series
C7_Witness ==
    /\ \E f \in Flows :
        /\ proc[f].pc = "returned"
        /\ proc[f].response.data.hasSeries
        /\ DOMAIN proc[f].response.data.timeSeries = {}
        /\ proc[f].result.error = "empty"
    /\ \E g \in Flows : Len(comp[g].investments) = 3

IsPrefix(s, t) == Len(s) <= Len(t) /\ \A i \in 1..Len(s) : s[i] = t[i]

LoopSymbols == [i \in 1..Len(defaultInvestments) |->
                   defaultInvestments[i].symbol]

\* C9: no retry: a call of the fetcher issues at most one request, exactly
\* one when the key is configured and none otherwise, whatever its outcome,
\* and a load calls the fetcher at most once per symbol, in the order of
\* the loop.
C9_NoRetry ==
    \A f \in Flows :
        /\ hist[f].requests <= 1
        /\ proc[f].pc = "returned" =>
               hist[f].requests = (IF apiKey THEN 1 ELSE 0)
        /\ Len(hist[f].reqTimes) <= Len(hist[f].called)
        /\ proc[f].kind = "load" => IsPrefix(hist[f].called, LoopSymbols)
        /\ proc[f].kind = "direct" => Len(hist[f].called) <= 1

\* a load stopped on a rate-limit notice for its second symbol after one
\* request per symbol
C9_Witness ==
    \E f \in Flows :
        /\ proc[f].kind = "load"
        /\ proc[f].pc = "done"
        /\ comp[f].error = "ratelimit"
        /\ hist[f].called = <<"SPY", "JNJ">>
        /\ Len(hist[f].reqTimes) = 2

\* C25: a load stops at the first symbol whose fetch fails: the error is
\* set, loading is false, the load is over with no fetch for a later
\* symbol, investments is still empty though earlier symbols were loaded,
\* and onStockReturnsChange was not called.
C25_StopsAtFirstFailure ==
    \A f \in Flows :
        (proc[f].kind = "load" /\ comp[f].error # "null") =>
            /\ proc[f].pc = "done"
            /\ ~comp[f].loading
            /\ comp[f].investments = <<>>
            /\ hist[f].callbacks = 0
            /\ Len(hist[f].reqTimes) <= Len(hist[f].called)
            /\ IsPrefix(hist[f].called, <<"SPY", "JNJ", "AAPL">>)
            /\ \A i \in 1..Len(reqLog) :
                  reqLog[i].flow = f =>
                      \E k \in 1..Len(hist[f].called) :
                          reqLog[i].symbol = hist[f].called[k]

\* the third symbol failed with an HTTP error after two were loaded
C25_Witness ==
    \E f \in Flows :
        /\ proc[f].kind = "load"
        /\ comp[f].error = "http"
        /\ hist[f].called = <<"SPY", "JNJ", "AAPL">>
        /\ comp[f].investments = <<>>

\* C29 as stated: a call never sleeps longer than 12000 ms, measured from
\* the call to the moment the timer callback runs; a call made 12000 ms or
\* more after lastCallTime does not sleep; a call that reads
\* lastCallTime = 0 issues its request at the time it was made.
C29_SleepAtMostRateLimit ==
    \A f \in Flows :
        /\ (proc[f].pc = "stamp" /\ hist[f].slept) =>
              now - hist[f].callAt <= 12000
        /\ hist[f].slept => hist[f].callAt - hist[f].readLast < 12000
        /\ (proc[f].pc = "inflight" /\ hist[f].readLast = 0) =>
              /\ ~hist[f].slept
              /\ LastOf(hist[f].reqTimes) = hist[f].callAt

\* C29 amended: the timer of waitForRateLimit is set for at most 12000 ms
\* and the call resumes no earlier than that; a call made 12000 ms or more
\* after lastCallTime sets no timer; a call that reads lastCallTime = 0
\* issues its request at the time it was made.
C29_TimerAtMostRateLimit ==
    \A f \in Flows :
        /\ proc[f].pc = "sleeping" =>
              /\ proc[f].wakeAt - hist[f].callAt >= 1
              /\ proc[f].wakeAt - hist[f].callAt <= 12000
              /\ proc[f].wakeAt = hist[f].readLast + 12000
        /\ (proc[f].pc = "stamp" /\ hist[f].slept) =>
              now >= hist[f].readLast + 12000
        /\ hist[f].slept => hist[f].callAt - hist[f].readLast < 12000
        /\ (proc[f].pc = "inflight" /\ hist[f].readLast = 0) =>
              /\ ~hist[f].slept
              /\ LastOf(hist[f].reqTimes) = hist[f].callAt

\* a call made at the very time of the previous stamp waits the full 12000
C29_Witness ==
    \E f \in Flows :
        /\ proc[f].pc = "sleeping"
        /\ hist[f].callAt = hist[f].readLast
        /\ proc[f].wakeAt = hist[f].callAt + 12000


\* the symbols of a list of investments or of returns, in its order
SymbolsOf(list) == [i \in 1..Len(list) |-> list[i].symbol]

\* C26: investments is empty or holds exactly SPY, JNJ, AAPL in that order;
\* a load calls onStockReturnsChange at most once, and only with the three
\* returns in that order; once investments is non-empty the weighted return
\* is computed, never the value 0 of the fewer-than-three guard.
C26_ThreeInOrderOrNone ==
    /\ stockReturns = <<>> \/ SymbolsOf(stockReturns) = <<"SPY", "JNJ", "AAPL">>
    /\ \A f \in Flows :
        LET inv == comp[f].investments
        IN  /\ inv = <<>> \/ SymbolsOf(inv) = <<"SPY", "JNJ", "AAPL">>
            /\ hist[f].callbacks <= 1
            /\ hist[f].callbacks = 1 =>
                   /\ SymbolsOf(inv) = <<"SPY", "JNJ", "AAPL">>
                   /\ SymbolsOf(stockReturns) = <<"SPY", "JNJ", "AAPL">>
                   /\ \A i \in 1..3 :
                          stockReturns[i].monthlyReturn \in
                              {comp[g].investments[i].priceAnalysis.monthlyReturn :
                                  g \in {h \in Flows : comp[h].investments # <<>>}}
            /\ hist[f].callbacks = 0 => inv = <<>>
            /\ (inv # <<>> /\ mounted = f) =>
                   comp[f].portfolioReturn =
                       WeightedReturn(comp[f].selectedRiskProfile,
                           [i \in 1..Len(inv) |-> inv[i].expectedReturn])

C26_Witness ==
    \E f \in Flows :
        /\ Len(comp[f].investments) = 3
        /\ hist[f].callbacks = 1
        /\ mounted = f
        /\ comp[f].portfolioReturn # Zero
----------------------------------------------------------------------------
(* The normalisation alone: every response shape, long series (SpecParse) *)

\* the calendar the provider's dates are taken from: consecutive days from
\* 15 December 2023 across the turn of the year
DateAt(i) == IF i <= 17 THEN <<2023, 12, 14 + i>> ELSE <<2024, 1, i - 17>>

\* a run of calendar days, and the same run without its weekends
DayRun(lo, hi) == {DateAt(i) : i \in lo..hi}
TradingDays(lo, hi) == {DateAt(i) : i \in {j \in lo..hi : j % 7 \notin {2, 3}}}

DateSets ==
    {{}} \cup {DayRun(lo, hi) : lo \in 1..MaxDates, hi \in 1..MaxDates}
         \cup {TradingDays(lo, hi) : lo \in 1..MaxDates, hi \in 1..MaxDates}

ParseInputs ==
    {HttpFail, Rejected}
    \cup {HttpOk(DataWith(e, n, FALSE, {})) : e \in BOOLEAN, n \in BOOLEAN}
    \cup {HttpOk(DataWith(e, n, TRUE, S)) :
            e \in BOOLEAN, n \in BOOLEAN, S \in DateSets}

\* the throttle and the components are not involved
SysIdle ==
    /\ apiKey = TRUE
    /\ now = Epoch
    /\ lastCallTime = 0
    /\ running = 0
    /\ mounted = 0
    /\ proc = [f \in Flows |-> InitProc]
    /\ comp = [f \in Flows |-> InitComp]
    /\ hist = [f \in Flows |-> InitHist]
    /\ reqLog = <<>>
    /\ lastReturn = -1
    /\ stockReturns = <<>>

InitParse ==
    /\ SysIdle
    /\ input \in ParseInputs
    /\ output = NoResult
    /\ phase = "in"

\* the rest of fetchAlphaVantageData once fetch(url) has settled
Parse ==
    /\ phase = "in"
    /\ output' = ProcessResponse(input)
    /\ phase' = "out"
    /\ UNCHANGED <<input, sysVars>>

NextParse == Parse

SpecParse == InitParse /\ [][NextParse]_vars

\* C6: for an HTTP-successful response the failure shapes are decided
\* before any price is read: an error message always gives the provider
\* error, a rate-limit note without an error message always gives the
\* rate-limit error, whether or not a time series comes with them.
C6_FailureShapesFirst ==
    (phase = "out" /\ input.transport = "ok" /\ input.ok) =>
        /\ input.data.ErrorMessage =>
               output.kind = "error" /\ output.error = "provider"
        /\ (input.data.Note /\ ~input.data.ErrorMessage) =>
               output.kind = "error" /\ output.error = "ratelimit"

\* a note that came with a full time series was reported as the rate limit
C6_Witness ==
    /\ phase = "out"
    /\ input.transport = "ok" /\ input.ok
    /\ input.data.Note /\ ~input.data.ErrorMessage
    /\ input.data.hasSeries
    /\ Cardinality(DOMAIN input.data.timeSeries) >= 2
    /\ output.error = "ratelimit"

\* C8: a time series of n >= 1 dates gives exactly min(n, 30) points: the
\* min(n, 30) most recent dates, oldest first; with n > 30 only the oldest
\* n - 30 dates are dropped.  (The prices of DayData differ from one date
\* to the next, so a point tells which date it was made from.)
C8_MostRecentThirty ==
    (/\ phase = "out"
     /\ input.transport = "ok" /\ input.ok
     /\ ~input.data.ErrorMessage /\ ~input.data.Note
     /\ input.data.hasSeries
     /\ DOMAIN input.data.timeSeries # {})
    => LET ts == input.data.timeSeries
           n == Cardinality(DOMAIN ts)
           m == IF n < 30 THEN n ELSE 30
           Top == {k \in DOMAIN ts :
                      Cardinality({l \in DOMAIN ts : KeyLess(k, l)}) < m}
           Rank(k) == 1 + Cardinality({l \in Top : KeyLess(l, k)})
       IN  /\ output.kind = "ok"
           /\ Len(output.prices) = m
           /\ Cardinality(Top) = m
           /\ \A k \in Top :
                /\ output.prices[Rank(k)].close = RoundPrice(ts[k].close)
                /\ output.prices[Rank(k)].open = RoundPrice(ts[k].open)
                /\ output.prices[Rank(k)].volume = ts[k].volume

\* a series of more than 30 dates across the turn of the year was cut to 30
C8_Witness ==
    /\ phase = "out"
    /\ output.kind = "ok"
    /\ Cardinality(DOMAIN input.data.timeSeries) > 30
    /\ <<2023, 12, 31>> \in DOMAIN input.data.timeSeries
    /\ Len(output.prices) = 30

----------------------------------------------------------------------------
(* The analyzer alone, the empty series included (SpecAnalyze) *)

\* the closes the series under analysis are made of
Closes == {-10, 0, 90, 100, 110}

AnalyzeInputs ==
    UNION {[1..n -> {[close |-> RInt(c)] : c \in Closes}] : n \in 0..MaxLen}

InitAnalyze ==
    /\ SysIdle
    /\ input \in AnalyzeInputs
    /\ output = EmptyAnalysis
    /\ phase = "in"

Analyze ==
    /\ phase = "in"
    /\ output' = analyzePriceMovement(input)
    /\ phase' = "out"
    /\ UNCHANGED <<input, sysVars>>

NextAnalyze == Analyze

SpecAnalyze == InitAnalyze /\ [][NextAnalyze]_vars

\* C10: the analysis of the empty series has every field equal to 0.
C10_EmptySeriesAllZero ==
    (phase = "out" /\ Len(input) = 0) =>
        /\ DOMAIN output = {"startPrice", "endPrice", "monthlyReturn",
                            "monthlyCAGR", "annualizedCAGR",
                            "annualizedReturn", "forecastedPrice30Days",
                            "highPrice", "lowPrice"}
        /\ \A field \in DOMAIN output : output[field] = [n |-> 0, d |-> 1]

\* the empty series has been analyzed
C10_Witness == phase = "out" /\ input = <<>>

\* the closes of a series, as numbers
SeriesOf(closes) == [i \in 1..Len(closes) |-> [close |-> RInt(closes[i])]]

\* C11: for a non-empty series every close lies between lowPrice and
\* highPrice, and each of the two is the close of some point of the series.
C11_HighLowAreCloses ==
    (phase = "out" /\ Len(input) > 0) =>
        /\ \A i \in 1..Len(input) :
              /\ RLe(output.lowPrice, input[i].close)
              /\ RLe(input[i].close, output.highPrice)
        /\ \E i \in 1..Len(input) : output.highPrice = input[i].close
        /\ \E i \in 1..Len(input) : output.lowPrice = input[i].close

\* the highest close was the middle point, the lowest the last one
C11_Witness ==
    /\ phase = "out"
    /\ input = SeriesOf(<<100, 110, 90>>)
    /\ output.highPrice = RInt(110)
    /\ output.lowPrice = RInt(90)

\* C12: for a non-empty series monthlyCAGR is the change from the first
\* close to the last close as a fraction of the first close, and 0 when the
\* first close is 0 or negative; the closes 100, 110 give exactly 1/10.
C12_PeriodReturn ==
    (phase = "out" /\ Len(input) > 0) =>
        LET first == input[1].close
            last == input[Len(input)].close
        IN  /\ output.startPrice = first
            /\ output.endPrice = last
            /\ first.n > 0 =>
                  RAdd(RMul(output.monthlyCAGR, first), first) = last
            /\ first.n <= 0 => output.monthlyCAGR = [n |-> 0, d |-> 1]
            /\ input = SeriesOf(<<100, 110>>) =>
                  output.monthlyCAGR = [n |-> 1, d |-> 10]

\* the series 100, 110 was analyzed
C12_Witness ==
    /\ phase = "out"
    /\ input = SeriesOf(<<100, 110>>)
    /\ output.monthlyCAGR = [n |-> 1, d |-> 10]

\* C13: annualizedCAGR is 12 times monthlyCAGR whatever the length of the
\* series: every other series with the same first and last close gets the
\* same annualized rate.
C13_AnnualizedIsTwelveTimes ==
    phase = "out" =>
        /\ output.annualizedCAGR = RMul(RInt(12), output.monthlyCAGR)
        /\ Len(input) > 0 =>
              \A other \in AnalyzeInputs :
                  (/\ Len(other) > 0
                   /\ other[1] = input[1]
                   /\ other[Len(other)] = input[Len(input)])
                  => analyzePriceMovement(other).annualizedCAGR
                         = output.annualizedCAGR

\* a series of three points from 100 to 110 got the rate 12 * 1/10
C13_Witness ==
    /\ phase = "out"
    /\ input = SeriesOf(<<100, 90, 110>>)
    /\ output.annualizedCAGR = [n |-> 6, d |-> 5]

----------------------------------------------------------------------------
(* The forecast generator alone (SpecForecast) *)

\* current prices: negative, 0, below 1, whole, and with cents as the
\* fetcher produces them
ForecastPrices == {RInt(-50), Zero, Rat(2, 5), RInt(100), Rat(10301, 100)}

\* annualized rates: -1.20, 0, 0.12, 1.20
ForecastRates == {Rat(-6, 5), Zero, Rat(3, 25), Rat(6, 5)}

ForecastInputs ==
    [currentPrice : ForecastPrices, annualizedCAGR : ForecastRates,
     days : 1..MaxHorizon]

InitForecast ==
    /\ SysIdle
    /\ input \in ForecastInputs
    /\ output = <<>>
    /\ phase = "in"

Forecast ==
    /\ phase = "in"
    /\ output' = generateForecastData(input.currentPrice,
                                       input.annualizedCAGR, input.days)
    /\ phase' = "out"
    /\ UNCHANGED <<input, sysVars>>

NextForecast == Forecast

SpecForecast == InitForecast /\ [][NextForecast]_vars

\* C14: the forecast has horizonDays + 1 points and the price of its first
\* point, day 0, is currentPrice.
C14_LengthAndDayZero ==
    phase = "out" =>
        /\ Len(output) = input.days + 1
        /\ RInt(output[1].price) = input.currentPrice

\* C15: in every investment loadInvestmentData builds, the price of the
\* last forecast point, day 30, is expectedPrice, the forecastedPrice30Days
\* of the analysis of the same series.
C15_EndpointIsForecastedPrice ==
    \A f \in Flows :
        \A loaded \in {proc[f].loadedInvestments, comp[f].investments} :
            \A k \in 1..Len(loaded) :
                /\ Len(loaded[k].forecastData) = 31
                /\ RInt(loaded[k].forecastData[31].price)
                       = loaded[k].priceAnalysis.forecastedPrice30Days

----------------------------------------------------------------------------
(* The allocator and the displayed amounts alone (SpecPortfolio) *)

RiskProfiles == {"conservative", "balanced", "aggressive"}
SelectedProfiles == {"low", "medium", "high"}

\* per-symbol returns in percent: -12, 0, 12.5
ReturnValues == {RInt(-12), Zero, Rat(25, 2)}

ReturnLists == UNION {[1..n -> ReturnValues] : n \in 0..MaxReturns}

\* remaining budgets: small ones of either sign, an overspend and the
\* budget of the worked example
Budgets == (-MaxBudget..MaxBudget) \cup {-300000, 1200000}

PortfolioInput(op, profile, returns, remainingMoney) ==
    [op |-> op, profile |-> profile, returns |-> returns,
     remainingMoney |-> remainingMoney]

PortfolioInputs ==
    {PortfolioInput("allocation", p, <<>>, 0) : p \in RiskProfiles}
    \cup {PortfolioInput("return", p, r, 0) :
             p \in RiskProfiles, r \in ReturnLists}
    \cup {PortfolioInput("charts", p, <<>>, b) :
             p \in RiskProfiles, b \in Budgets}
    \cup {PortfolioInput("recommendations", p, <<>>, b) :
             p \in SelectedProfiles, b \in Budgets}

InitPortfolio ==
    /\ SysIdle
    /\ input \in PortfolioInputs
    /\ output = <<>>
    /\ phase = "in"

\* getPortfolioAllocation(riskProfile)
GetAllocation ==
    /\ phase = "in"
    /\ input.op = "allocation"
    /\ output' = getPortfolioAllocation(input.profile)
    /\ phase' = "out"
    /\ UNCHANGED <<input, sysVars>>

\* calculatePortfolioReturnByProfile(riskProfile, stockReturns)
PortfolioReturn ==
    /\ phase = "in"
    /\ input.op = "return"
    /\ output' = calculatePortfolioReturnByProfile(input.profile,
                                                    input.returns)
    /\ phase' = "out"
    /\ UNCHANGED <<input, sysVars>>

\* InvestmentCharts renders the suggested amounts
RenderCharts ==
    /\ phase = "in"
    /\ input.op = "charts"
    /\ output' = ChartAmounts(input.profile, input.remainingMoney)
    /\ phase' = "out"
    /\ UNCHANGED <<input, sysVars>>

\* InvestmentRecommendations computes allocationData
RenderRecommendations ==
    /\ phase = "in"
    /\ input.op = "recommendations"
    /\ output' = allocationData(input.profile, input.remainingMoney)
    /\ phase' = "out"
    /\ UNCHANGED <<input, sysVars>>

NextPortfolio ==
    \/ GetAllocation
    \/ PortfolioReturn
    \/ RenderCharts
    \/ RenderRecommendations

SpecPortfolio == InitPortfolio /\ [][NextPortfolio]_vars

\* C17: for each risk profile getPortfolioAllocation returns three entries,
\* SPY, JNJ, AAPL in this order, each weight between 0 and 1, the weights
\* adding up to exactly 1; the conservative weights are 0.5, 0.3, 0.2.
C17_WeightsSumToOne ==
    (phase = "out" /\ input.op = "allocation") =>
        /\ Len(output) = 3
        /\ output[1].name = "S&P 500 Index (SPY)"
        /\ output[2].name = "Johnson & Johnson (JNJ)"
        /\ output[3].name = "Apple (AAPL)"
        /\ \A k \in 1..3 :
              RLe(Zero, output[k].weight) /\ RLe(output[k].weight, RInt(1))
        /\ RAdd(RAdd(output[1].weight, output[2].weight), output[3].weight)
               = [n |-> 1, d |-> 1]
        /\ input.profile = "conservative" =>
              /\ output[1].weight = [n |-> 1, d |-> 2]
              /\ output[2].weight = [n |-> 3, d |-> 10]
              /\ output[3].weight = [n |-> 1, d |-> 5]

\* the aggressive allocation was returned
C17_Witness ==
    /\ phase = "out"
    /\ input.op = "allocation"
    /\ input.profile = "aggressive"
    /\ output[2].weight = [n |-> 2, d |-> 5]

\* C18: with fewer than 3 returns the portfolio return is 0; otherwise it
\* is the sum of the first three returns, each times the weight of SPY, JNJ
\* and AAPL in this order as getPortfolioAllocation gives them for the
\* profile (times 1/100 and the sum times 100); further returns do not count.
C18_WeightedReturn ==
    (phase = "out" /\ input.op = "return") =>
        LET r == input.returns
            w == getPortfolioAllocation(input.profile)
        IN  /\ Len(r) < 3 => output = [n |-> 0, d |-> 1]
            /\ Len(r) >= 3 =>
                  /\ output = RAdd(RAdd(RMul(w[1].weight, r[1]),
                                         RMul(w[2].weight, r[2])),
                                    RMul(w[3].weight, r[3]))
                  /\ input.profile = "conservative" =>
                        RMul(output, RInt(10)) =
                            RAdd(RAdd(RMul(RInt(5), r[1]),
                                      RMul(RInt(3), r[2])),
                                 RMul(RInt(2), r[3]))

\* four returns under the balanced profile: 0.4 * -12 + 0.35 * 0 +
\* 0.25 * 12.5 = -1.675, the fourth return left out
C18_Witness ==
    /\ phase = "out"
    /\ input.op = "return"
    /\ input.profile = "balanced"
    /\ input.returns = <<RInt(-12), Zero, Rat(25, 2), Rat(25, 2)>>
    /\ output = [n |-> -67, d |-> 40]

\* the sum of three whole numbers
Sum3(a, b, c) == a + b + c

\* C19: the three amounts displayed add up to the remaining budget within
\* rounding: the amounts weight * remainingMoney of the charts add up to
\* remainingMoney exactly and as shown (whole rupiah) to at most 1 more or
\* less; the rounded amounts of the recommendations add up to at most 1
\* more or less than remainingMoney.
C19_AmountsPartitionBudget ==
    /\ (phase = "out" /\ input.op = "charts" /\ input.remainingMoney > 0) =>
          /\ Len(output) = 3
          /\ RAdd(RAdd(output[1].amount, output[2].amount), output[3].amount)
                 = RInt(input.remainingMoney)
          /\ Abs(Sum3(output[1].text, output[2].text, output[3].text)
                    - input.remainingMoney) <= 1
    /\ (phase = "out" /\ input.op = "recommendations") =>
          /\ Len(output) = 3
          /\ Abs(Sum3(output[1].value, output[2].value, output[3].value)
                    - input.remainingMoney) <= 1

\* a budget of 5 at low risk is shown as 3 + 2 + 1
C19_Witness ==
    /\ phase = "out"
    /\ input.op = "recommendations"
    /\ input.profile = "low"
    /\ input.remainingMoney = 5
    /\ output[1].value = 3 /\ output[2].value = 2 /\ output[3].value = 1

----------------------------------------------------------------------------
(* The budget form of FinancialPlanner (SpecPlanner)                        *)
(* input is formData, output the states showResults and remainingMoney,    *)
(* phase the handler that ran last.  A string is the sequence of its        *)
(* characters.                                                             *)

Fields == {"monthlySalary", "primaryExpenses", "secondaryExpenses",
           "savings", "pocketMoney"}

Digit == {"0", "1", "2", "3", "4", "5", "6", "7", "8", "9"}

DigitValue(c) ==
    CASE c = "0" -> 0 [] c = "1" -> 1 [] c = "2" -> 2 [] c = "3" -> 3
      [] c = "4" -> 4 [] c = "5" -> 5 [] c = "6" -> 6 [] c = "7" -> 7
      [] c = "8" -> 8 [] c = "9" -> 9

IsDigit(c) == c \in Digit

\* value.replace(/\D/g, "")
StripNonDigits(value) == SelectSeq(value, IsDigit)

\* the texts an input event can carry: empty, letters only, a formatted
\* amount, an amount with a leading zero
TypedTexts ==
    { <<>>,
      <<"a", "b", "c">>,
      <<"R", "p", " ", "5", ".", "0", "0", "0", ".", "0", "0", "0">>,
      <<"0", "2", "0", "0", "0", "0", "0", "0">> }

NaN == [isNaN |-> TRUE, value |-> 0]

\* the digits at the start of a text, read from the left in base 10
RECURSIVE ParseDigits(_, _, _)
ParseDigits(text, i, acc) ==
    IF i > Len(text) \/ ~IsDigit(text[i]) THEN acc
    ELSE ParseDigits(text, i + 1, 10 * acc + DigitValue(text[i]))

\* parseInt(text) for a text without leading blanks, sign or 0x prefix:
\* the number its leading digits spell, NaN when it starts with no digit
parseInt(text) ==
    IF Len(text) = 0 \/ ~IsDigit(text[1]) THEN NaN
    ELSE [isNaN |-> FALSE, value |-> ParseDigits(text, 1, 0)]

\* parseInt(value.replace(/\D/g, "")) || 0
parseIDR(value) ==
    LET parsed == parseInt(StripNonDigits(value))
    IN  IF parsed.isNaN \/ parsed.value = 0 THEN 0 ELSE parsed.value

EmptyForm == [field \in Fields |-> <<>>]

InitPlanner ==
    /\ SysIdle
    /\ input = EmptyForm
    /\ output = [showResults |-> FALSE, remainingMoney |-> 0]
    /\ phase = "init"

handleInputChange(field, value) ==
    /\ LET cleanValue == StripNonDigits(value)
       IN  input' = [input EXCEPT ![field] = cleanValue]
    /\ phase' = "change"
    /\ UNCHANGED <<output, sysVars>>

\* a faulty variant: a negative remainder is shown as 0
handleSubmit_clamped ==
    /\ LET salary == parseIDR(input.monthlySalary)
           primary == parseIDR(input.primaryExpenses)
           secondary == parseIDR(input.secondaryExpenses)
           savings == parseIDR(input.savings)
           pocket == parseIDR(input.pocketMoney)
           remaining == salary - primary - secondary - savings - pocket
       IN  output' = [showResults |-> TRUE,
                      remainingMoney |->
                          IF remaining < 0 THEN 0 ELSE remaining]
    /\ phase' = "submit"
    /\ UNCHANGED <<input, sysVars>>

SubmitForm ==
    /\ LET salary == parseIDR(input.monthlySalary)
           primary == parseIDR(input.primaryExpenses)
           secondary == parseIDR(input.secondaryExpenses)
           savings == parseIDR(input.savings)
           pocket == parseIDR(input.pocketMoney)
           remaining == salary - primary - secondary - savings - pocket
       IN  output' = [showResults |-> TRUE, remainingMoney |-> remaining]
    /\ UNCHANGED input

handleSubmit == SubmitForm /\ phase' = "submit" /\ UNCHANGED sysVars

\* the states after handleReset
ResetForm ==
    /\ input' = EmptyForm
    /\ output' = [showResults |-> FALSE, remainingMoney |-> 0]
    /\ phase' = "reset"

handleReset == ResetForm /\ UNCHANGED sysVars

\* the props of the InvestmentRecommendations the planner renders: one
\* instance when showResults, none otherwise
RecommendationsProps ==
    IF output.showResults
    THEN {[remainingMoney |-> output.remainingMoney,
           monthlySalary |-> parseIDR(input.monthlySalary)]}
    ELSE {}

NextPlanner ==
    \/ \E field \in Fields, value \in TypedTexts :
          handleInputChange(field, value)
    \/ handleSubmit
    \/ handleReset

SpecPlanner == InitPlanner /\ [][NextPlanner]_vars

\* the digits of a text and the whole number they spell, 0 for no digit:
\* the digit k places from the right counts 10^k times
DigitsOf(text) ==
    LET at == {i \in 1..Len(text) : text[i] \in Digit}
        Rank(i) == Cardinality({j \in at : j >= i})
    IN  {<<Rank(i) - 1, DigitValue(text[i])>> : i \in at}

RECURSIVE SumPlaces(_)
SumPlaces(places) ==
    IF places = {} THEN 0
    ELSE LET p == CHOOSE q \in places : TRUE
         IN  p[2] * 10 ^ p[1] + SumPlaces(places \ {p})

AmountOf(text) == SumPlaces(DigitsOf(text))

\* C20: right after a submit remainingMoney is the salary minus the four
\* other fields, each field counting as the whole number its digits spell
\* and as 0 when it has no digit; the result, negative or not, is the
\* remainingMoney given to InvestmentRecommendations.
C20_RemainingOnSubmit ==
    phase = "submit" =>
        LET remaining ==
                AmountOf(input.monthlySalary)
                    - AmountOf(input.primaryExpenses)
                    - AmountOf(input.secondaryExpenses)
                    - AmountOf(input.savings)
                    - AmountOf(input.pocketMoney)
        IN  /\ output.remainingMoney = remaining
            /\ output.showResults
            /\ \A props \in RecommendationsProps :
                  props.remainingMoney = remaining
            /\ Cardinality(RecommendationsProps) = 1

\* a salary of 2000000 against 5000000 of primary expenses, typed as
\* "Rp 5.000.000": the recommendations get -3000000
C20_Witness ==
    /\ phase = "submit"
    /\ input.monthlySalary = <<"0", "2", "0", "0", "0", "0", "0", "0">>
    /\ input.primaryExpenses = <<"5", "0", "0", "0", "0", "0", "0">>
    /\ input.savings = <<>>
    /\ RecommendationsProps
           = {[remainingMoney |-> -3000000, monthlySalary |-> 2000000]}

----------------------------------------------------------------------------
(* interpolateHistoricalData alone (SpecInterpolate)                       *)
(* "Today" is the last day of the calendar of DateAt; the input is a       *)
(* series as the fetcher returns it, without the volume.                   *)

\* startDate.setDate(startDate.getDate() - 30); for (i = 0; i <= 30; i++)
INTERPOLATE_DAYS == 30

\* currentDate: startDate plus i days
WindowDay(i) == DateAt(MaxDates - INTERPOLATE_DAYS + i)

\* dateKey: currentDate.toLocaleDateString("id-ID", {month, day})
WindowKey(i) == DateLabel(WindowDay(i))

\* dataMap.has(key), dataMap.get(key): new Map(...) keeps the last entry
\* of a key
MapHas(historicalData, key) ==
    \E k \in 1..Len(historicalData) : historicalData[k].date = key

MapGet(historicalData, key) ==
    LET ks == {k \in 1..Len(historicalData) : historicalData[k].date = key}
    IN  historicalData[CHOOSE k \in ks : \A m \in ks : m <= k]

\* the point for a day without data, result being non-empty
FilledPoint(historicalData, i, result) ==
    LET prevData == result[Len(result)]
        later == {j \in (i + 1)..INTERPOLATE_DAYS :
                     MapHas(historicalData, WindowKey(j))}
    IN  IF later # {}
        THEN LET j == CHOOSE m \in later : \A n \in later : m <= n
                 nextData == MapGet(historicalData, WindowKey(j))
             IN  [date  |-> WindowKey(i),
                  open  |-> RDiv(RAdd(prevData.open, nextData.open), RInt(2)),
                  high  |-> RMax({prevData.high, nextData.high}),
                  low   |-> RMin({prevData.low, nextData.low}),
                  close |-> RDiv(RAdd(prevData.close, nextData.close), RInt(2))]
        ELSE [prevData EXCEPT !.date = WindowKey(i)]

\* the loop of interpolateHistoricalData from day i on
RECURSIVE InterpolateFrom(_, _, _)
InterpolateFrom(historicalData, i, result) ==
    IF i > INTERPOLATE_DAYS THEN result
    ELSE IF MapHas(historicalData, WindowKey(i))
    THEN InterpolateFrom(historicalData, i + 1,
             Append(result, MapGet(historicalData, WindowKey(i))))
    ELSE IF Len(result) > 0
    THEN InterpolateFrom(historicalData, i + 1,
             Append(result, FilledPoint(historicalData, i, result)))
    ELSE InterpolateFrom(historicalData, i + 1, result)

interpolateHistoricalData(historicalData) ==
    IF Len(historicalData) = 0 THEN historicalData
    ELSE InterpolateFrom(historicalData, 0, <<>>)

\* the fetcher's series for the dates S, as the chart data type has it
ChartSeries(S) ==
    LET prices == NormalizeSeries(TimeSeriesOf(S)).prices
    IN  [k \in 1..Len(prices) |->
            [date |-> prices[k].date, open |-> prices[k].open,
             high |-> prices[k].high, low |-> prices[k].low,
             close |-> prices[k].close]]

InitInterpolate ==
    /\ SysIdle
    /\ input \in {ChartSeries(S) : S \in DateSets}
    /\ output = <<>>
    /\ phase = "in"

Interpolate ==
    /\ phase = "in"
    /\ output' = interpolateHistoricalData(input)
    /\ phase' = "out"
    /\ UNCHANGED <<input, sysVars>>

NextInterpolate == Interpolate

SpecInterpolate == InitInterpolate /\ [][NextInterpolate]_vars

\* C30: for a non-empty input the result has exactly 30 points, one for each
\* calendar day of the 30 days ending today, in order; a day the input has
\* is the input's point.
C30_FillsThirtyDays ==
    (phase = "out" /\ Len(input) > 0) =>
        /\ Len(output) = INTERPOLATE_DAYS
        /\ \A k \in 1..Len(output) : output[k].date = WindowKey(k)
        /\ \A k \in 1..Len(output) :
               MapHas(input, output[k].date) =>
                   output[k] = MapGet(input, output[k].date)
----------------------------------------------------------------------------
(* The 30-day return rate as the two components show it (SpecReturnRate)   *)
(* input holds the investments loaded from three close series and the      *)
(* profile selected in each component.                                     *)

\* returnMap.get(symbol) || 0: new Map(...) keeps the last entry of a symbol
ReturnOf(returns, symbol) ==
    LET ks == {k \in 1..Len(returns) : returns[k].symbol = symbol}
    IN  IF ks = {} THEN Zero
        ELSE returns[CHOOSE k \in ks : \A m \in ks : m <= k].monthlyReturn

\* a faulty variant: the medium weights of SPY and JNJ are exchanged
InlineWeights_exchanged(selectedProfile) ==
    IF selectedProfile = "low"
    THEN [spyWeight |-> Rat(5, 10), jnjWeight |-> Rat(3, 10),
          aaplWeight |-> Rat(2, 10)]
    ELSE IF selectedProfile = "high"
    THEN [spyWeight |-> Rat(3, 10), jnjWeight |-> Rat(4, 10),
          aaplWeight |-> Rat(3, 10)]
    ELSE [spyWeight |-> Rat(35, 100), jnjWeight |-> Rat(4, 10),
          aaplWeight |-> Rat(25, 100)]

\* the weights written out in "Average Return Rate"
InlineWeights(selectedProfile) ==
    IF selectedProfile = "low"
    THEN [spyWeight |-> Rat(5, 10), jnjWeight |-> Rat(3, 10),
          aaplWeight |-> Rat(2, 10)]
    ELSE IF selectedProfile = "high"
    THEN [spyWeight |-> Rat(3, 10), jnjWeight |-> Rat(4, 10),
          aaplWeight |-> Rat(3, 10)]
    ELSE [spyWeight |-> Rat(4, 10), jnjWeight |-> Rat(35, 100),
          aaplWeight |-> Rat(25, 100)]

\* x.toFixed(1), kept as the whole number of tenths it shows
toFixed1(x) ==
    LET tenths == RMul(x, RInt(10))
    IN  IF tenths.n >= 0 THEN MathRound(tenths)
        ELSE -MathRound([n |-> -tenths.n, d |-> tenths.d])

\* InvestmentRecommendations, "Average Return Rate": avgReturn * 100
AverageReturnRate(selectedProfile, returns) ==
    LET spyReturn == ReturnOf(returns, "SPY")
        jnjReturn == ReturnOf(returns, "JNJ")
        aaplReturn == ReturnOf(returns, "AAPL")
        w == InlineWeights(selectedProfile)
        avgReturn ==
            RDiv(RAdd(RAdd(RMul(spyReturn, w.spyWeight),
                           RMul(jnjReturn, w.jnjWeight)),
                      RMul(aaplReturn, w.aaplWeight)), RInt(100))
    IN  RMul(avgReturn, RInt(100))

\* InvestmentCharts, "Expected Portfolio Return (30 days)": portfolioReturn / 12
ExpectedPortfolioReturn(portfolioReturn) == RDiv(portfolioReturn, RInt(12))

\* the close series of one symbol
RateSeries == {<<100, 110>>, <<100, 90>>, <<90, 100, 100>>, <<0, 100>>}

\* what the loop of loadInvestmentData keeps of a symbol for the two rates
RateInvestment(investment, closes) ==
    LET priceAnalysis == analyzePriceMovement(SeriesOf(closes))
    IN  [symbol |-> investment.symbol,
         expectedReturn |-> priceAnalysis.annualizedReturn,
         priceAnalysis |-> priceAnalysis]

InitReturnRate ==
    /\ SysIdle
    /\ \E c \in [1..3 -> RateSeries], p \in SelectedProfiles,
          q \in RiskProfiles :
          input = [investments |->
                       [i \in 1..3 |->
                           RateInvestment(defaultInvestments[i], c[i])],
                   selectedProfile |-> p, selectedRiskProfile |-> q]
    /\ output = <<>>
    /\ phase = "in"

\* both components render the rate from the same loaded investments
RenderReturnRates ==
    /\ phase = "in"
    /\ LET average ==
               AverageReturnRate(input.selectedProfile,
                                 StockReturnsOf(input.investments))
           portfolioReturn ==
               calculatePortfolioReturnByProfile(input.selectedRiskProfile,
                   [i \in 1..Len(input.investments) |->
                       input.investments[i].expectedReturn])
       IN  output' =
               [average |-> average,
                averageText |-> toFixed1(average),
                expected |-> ExpectedPortfolioReturn(portfolioReturn),
                expectedText |->
                    toFixed1(ExpectedPortfolioReturn(portfolioReturn))]
    /\ phase' = "out"
    /\ UNCHANGED <<input, sysVars>>

NextReturnRate == RenderReturnRates

SpecReturnRate == InitReturnRate /\ [][NextReturnRate]_vars

\* the profile of InvestmentCharts that corresponds to one of
\* InvestmentRecommendations
CorrespondingProfile(selectedProfile) ==
    CASE selectedProfile = "low" -> "conservative"
      [] selectedProfile = "medium" -> "balanced"
      [] selectedProfile = "high" -> "aggressive"

\* C28: for the same three 30-day returns and corresponding profiles the
\* Average Return Rate of InvestmentRecommendations equals portfolioReturn / 12
\* of InvestmentCharts, as a number and as shown with one decimal.
C28_RatesAgree ==
    (phase = "out" /\
     input.selectedRiskProfile = CorrespondingProfile(input.selectedProfile)) =>
        /\ output.average = output.expected
        /\ output.averageText = output.expectedText

\* SPY +10 %, JNJ -10 % at medium / balanced: a rate other than 0 in both
C28_Witness ==
    /\ phase = "out"
    /\ input.selectedProfile = "medium"
    /\ input.selectedRiskProfile = "balanced"
    /\ input.investments[1].priceAnalysis.monthlyReturn = RInt(10)
    /\ input.investments[2].priceAnalysis.monthlyReturn = RInt(-10)
    /\ output.average # Zero
    /\ output.averageText = output.expectedText
----------------------------------------------------------------------------
(* The planner page with its charts (SpecApp)                              *)
(* The handlers of FinancialPlanner together with the render that follows  *)
(* them: InvestmentCharts is on the screen exactly while showResults and   *)
(* remainingMoney > 0, and keeps its state from one render to the next.    *)
(* A handler runs when no task is on the stack.  phase = "landing" is the  *)
(* landing page after Back to Home; the run ends there.  One instance of   *)
(* the charts is followed: once it has left the screen, a submit that      *)
(* would put a new one there is not taken.  phase = "rescale" is a submit  *)
(* that gave the charts on the screen another budget.                      *)

\* the fields typed into and the texts typed
AppFields == {"monthlySalary", "primaryExpenses"}

AppTexts ==
    { <<"R", "p", " ", "5", ".", "0", "0", "0", ".", "0", "0", "0">>,
      <<"0", "2", "0", "0", "0", "0", "0", "0">> }

\* the flows of the charts instances the page mounts
AppFlows == {1}

\* a series with another 30-day return than that of TwoDays
ThreeDays == TwoDays \cup {<<2024, 1, 5>>}

\* the responses of the network: a failure or one of two series
AppResponses ==
    {HttpFail} \cup {HttpOk(DataWith(FALSE, FALSE, TRUE, S)) :
                        S \in {TwoDays, ThreeDays}}

\* a faulty variant: the charts are shown for a budget of 0 as well
ChartsShown_nonNegative(planner) ==
    planner.showResults /\ planner.remainingMoney >= 0

\* {showResults && remainingMoney > 0 && <InvestmentCharts .../>}
ChartsShown(planner) == planner.showResults /\ planner.remainingMoney > 0

\* InvestmentRecommendations: hasRemainingMoney, the condition of the
\* allocation breakdown
hasRemainingMoney(remainingMoney) == remainingMoney > 0

\* InvestmentCharts: calculatePotentialReturn with the props' remainingMoney
calculatePotentialReturn(remainingMoney, monthlyReturnPercent) ==
    IF remainingMoney <= 0 THEN Zero
    ELSE LET investmentAmount == RMul(RInt(remainingMoney), Rat(3, 10))
         IN  RMul(investmentAmount, RDiv(monthlyReturnPercent, RInt(100)))

\* a faulty variant: the charts are keyed by the budget, a new budget
\* replaces the instance
RenderPlanner_keyed ==
    IF ChartsShown(output')
    THEN IF mounted = 0
         THEN \E f \in AppFlows : MountCharts(f)
         ELSE IF output'.remainingMoney = output.remainingMoney
         THEN UNCHANGED sysVars
         ELSE \E f \in Flows :
                /\ NextFree(f)
                /\ mounted' = f
                /\ comp' = [comp EXCEPT
                               ![f] = ProfileEffect([@ EXCEPT !.loading = TRUE,
                                                              !.error = "null"])]
                /\ proc' = [proc EXCEPT ![f].pc = "call", ![f].kind = "load",
                               ![f].idx = 1,
                               ![f].symbol = defaultInvestments[1].symbol,
                               ![f].loadedInvestments = <<>>]
                /\ running' = f
                /\ UNCHANGED <<apiKey, now, lastCallTime, hist, reqLog,
                               lastReturn, stockReturns>>
    ELSE IF mounted # 0 THEN UnmountCharts ELSE UNCHANGED sysVars

\* the render after a handler has set the planner's states
RenderPlanner ==
    IF ChartsShown(output')
    THEN IF mounted = 0
         THEN \E f \in AppFlows : MountCharts(f)
         ELSE UNCHANGED sysVars
    ELSE IF mounted # 0 THEN UnmountCharts ELSE UNCHANGED sysVars

InitApp ==
    /\ apiKey \in BOOLEAN
    /\ now = Epoch
    /\ lastCallTime = 0
    /\ running = 0
    /\ mounted = 0
    /\ proc = [f \in Flows |-> InitProc]
    /\ comp = [f \in Flows |-> InitComp]
    /\ hist = [f \in Flows |-> InitHist]
    /\ reqLog = <<>>
    /\ lastReturn = -1
    /\ stockReturns = <<>>
    /\ input = EmptyForm
    /\ output = [showResults |-> FALSE, remainingMoney |-> 0]
    /\ phase = "init"

\* a key is typed into a field of the form
TypeAmount(field, value) ==
    /\ running = 0
    /\ phase # "landing"
    /\ handleInputChange(field, value)

\* the form is submitted
SubmitPlanner ==
    /\ running = 0
    /\ phase # "landing"
    /\ SubmitForm
    /\ phase' = IF /\ mounted # 0
                   /\ ChartsShown(output')
                   /\ output'.remainingMoney # output.remainingMoney
                THEN "rescale" ELSE "submit"
    /\ RenderPlanner

\* the Reset button
ResetPlanner ==
    /\ running = 0
    /\ phase # "landing"
    /\ ResetForm
    /\ RenderPlanner

\* Back to Home: App shows the landing page, the planner is gone
onBack ==
    /\ running = 0
    /\ phase # "landing"
    /\ input' = EmptyForm
    /\ output' = [showResults |-> FALSE, remainingMoney |-> 0]
    /\ phase' = "landing"
    /\ RenderPlanner

\* a risk-profile button of the charts, shown once the load has succeeded
SelectRiskProfile(f, profile) ==
    /\ running = 0
    /\ mounted = f
    /\ ~comp[f].loading
    /\ comp[f].error = "null"
    /\ comp' = [comp EXCEPT
                   ![f] = ProfileEffect([@ EXCEPT
                                           !.selectedRiskProfile = profile])]
    /\ UNCHANGED <<apiKey, now, lastCallTime, running, mounted, proc, hist,
                   reqLog, lastReturn, stockReturns, pureVars>>

NextApp ==
    \/ Tick
    \/ \E field \in AppFields, value \in AppTexts : TypeAmount(field, value)
    \/ SubmitPlanner
    \/ ResetPlanner
    \/ onBack
    \/ \E f \in Flows, profile \in RiskProfiles : SelectRiskProfile(f, profile)
    \/ \E f \in Flows : FetchEnter(f)
    \/ \E f \in Flows : WaitForRateLimit(f)
    \/ \E f \in Flows : TimerFire(f)
    \/ \E f \in Flows : Stamp(f)
    \/ \E f \in Flows : Issue(f)
    \/ \E f \in Flows, resp \in AppResponses : Respond(f, resp)
    \/ \E f \in Flows : LoadContinue(f)

SpecApp == InitApp /\ [][NextApp]_vars
\* what the event loop does next for flow f, short of resuming
\* loadInvestmentData: a step of the fetch, its timer when due, the response
\* to its request
FlowStep(f) ==
    \/ FetchEnter(f)
    \/ WaitForRateLimit(f)
    \/ Stamp(f)
    \/ Issue(f)
    \/ TimerFire(f)
    \/ \E resp \in AppResponses : Respond(f, resp)

\* LoadContinue(f) is enabled exactly when the fetch of flow f has returned
\* to loadInvestmentData
Resumable(f) ==
    running = f /\ proc[f].pc = "returned" /\ proc[f].kind = "load"

\* the event loop runs a task that is ready, time passes, a timer that is
\* due runs, and every request gets a response or fails.  The last
\* conjunct is WF_vars(LoadContinue(f)): a step of LoadContinue(f) ends
\* Resumable(f).
FairApp ==
    /\ WF_vars(Tick)
    /\ \A f \in AppFlows : WF_vars(FlowStep(f)) /\ []<>(~Resumable(f))

FairSpecApp == SpecApp /\ FairApp
\* the returns given to calculatePortfolioReturnByProfile by the effect
ExpectedReturns(investments) ==
    [i \in 1..Len(investments) |-> investments[i].expectedReturn]

\* C21: a submit that gives the mounted charts another positive budget
\* starts no fetch sequence and leaves the instance, its loaded investments
\* and the throttle as they are; the amounts displayed become the new
\* budget times each weight.
C21_BudgetLeavesAnalysis ==
    [][(/\ mounted # 0
        /\ ChartsShown(output)
        /\ ChartsShown(output')
        /\ output'.remainingMoney # output.remainingMoney) =>
           /\ mounted' = mounted
           /\ proc' = proc
           /\ comp' = comp
           /\ hist' = hist
           /\ reqLog' = reqLog
           /\ lastCallTime' = lastCallTime
           /\ LET profile == comp[mounted].selectedRiskProfile
                  before == ChartAmounts(profile, output.remainingMoney)
                  after == ChartAmounts(profile, output'.remainingMoney)
              IN  /\ Len(after) = 3
                  /\ \A k \in 1..3 :
                        /\ after[k].amount # before[k].amount
                        /\ after[k].amount =
                               RMul(RInt(output'.remainingMoney),
                                    getPortfolioAllocation(profile)[k].weight)]_vars

\* the load is over and the charts, still the first instance, were given
\* another budget by the last submit
C21_Witness ==
    /\ phase = "rescale"
    /\ mounted = 1
    /\ proc[1].pc = "done"
    /\ Len(comp[1].investments) = 3
    /\ Len(reqLog) = 3

\* C22: whatever profiles were selected before, the charts on the screen
\* hold the allocation of the selected profile and, once investments are
\* loaded, the portfolio return of that profile for the loaded returns; a
\* step that changes the selected profile issues no fetch.
C22_ProfileSwitchStateless ==
    /\ [](\A f \in Flows : mounted = f =>
             /\ comp[f].portfolioAllocations =
                    getPortfolioAllocation(comp[f].selectedRiskProfile)
             /\ comp[f].investments # <<>> =>
                    comp[f].portfolioReturn =
                        calculatePortfolioReturnByProfile(
                            comp[f].selectedRiskProfile,
                            ExpectedReturns(comp[f].investments)))
    /\ [][(\E f \in Flows :
              comp'[f].selectedRiskProfile # comp[f].selectedRiskProfile) =>
             /\ reqLog' = reqLog
             /\ proc' = proc
             /\ lastCallTime' = lastCallTime
             /\ \A f \in Flows : comp'[f].investments = comp[f].investments]_vars

\* a profile other than the initial one is selected on loaded charts
C22_Witness ==
    /\ mounted = 1
    /\ comp[1].selectedRiskProfile = "aggressive"
    /\ Len(comp[1].investments) = 3
    /\ comp[1].portfolioReturn =
           WeightedReturn("aggressive", ExpectedReturns(comp[1].investments))
    /\ comp[1].portfolioReturn #
           WeightedReturn("balanced", ExpectedReturns(comp[1].investments))

\* the monthly returns calculatePotentialReturn is tried with, in percent
PotentialReturns == {RInt(-12), Zero, Rat(25, 2)}

\* C23: while a submitted budget <= 0 is shown, calculatePotentialReturn
\* gives 0, the allocation breakdown is hidden and no charts are mounted;
\* the submit that brings such a budget issues no request and starts no load.
C23_NoSuggestionWithoutBudget ==
    /\ []((output.showResults /\ output.remainingMoney <= 0) =>
             /\ \A r \in PotentialReturns :
                    calculatePotentialReturn(output.remainingMoney, r) = Zero
             /\ ~hasRemainingMoney(output.remainingMoney)
             /\ mounted = 0)
    /\ [][(/\ output' # output
            /\ output'.showResults
            /\ output'.remainingMoney <= 0) =>
               /\ mounted' = 0
               /\ proc' = proc
               /\ reqLog' = reqLog
               /\ hist' = hist
               /\ lastCallTime' = lastCallTime]_vars

\* an overspend is submitted and shown
C23_Witness ==
    /\ phase = "submit"
    /\ output.showResults
    /\ output.remainingMoney = -2000000
    /\ mounted = 0

\* the timer of flow f is set for a time the clock of the model never shows
BeyondHorizon(f) == proc[f].pc = "sleeping" /\ proc[f].wakeAt > MaxTime

\* C24: leaving the screen changes nothing of a load in progress; the load
\* goes on to its end, which is a failed fetch or, after SPY, JNJ and AAPL
\* were fetched in this order, one call of onStockReturnsChange; lastCallTime
\* is not before the time of any request of the load.
C24_LoadOutlivesCharts ==
    /\ [][(mounted # 0 /\ mounted' = 0) =>
             /\ proc' = proc
             /\ hist' = hist
             /\ reqLog' = reqLog
             /\ lastCallTime' = lastCallTime]_vars
    /\ [](\A f \in Flows : proc[f].kind = "load" =>
             /\ IsPrefix(hist[f].called, <<"SPY", "JNJ", "AAPL">>)
             /\ \A k \in 1..Len(hist[f].reqTimes) :
                    lastCallTime >= hist[f].reqTimes[k]
             /\ proc[f].pc = "inflight" =>
                    lastCallTime = LastOf(hist[f].reqTimes)
             /\ (proc[f].pc = "done" /\ comp[f].error = "null") =>
                    /\ hist[f].called = <<"SPY", "JNJ", "AAPL">>
                    /\ Len(hist[f].reqTimes) = 3
                    /\ hist[f].callbacks = 1)
    /\ \A f \in AppFlows :
          (mounted = 0 /\ proc[f].kind = "load" /\ proc[f].pc # "done")
              ~> (proc[f].pc = "done" \/ BeyondHorizon(f))

\* the load has ended with its callback after the charts had left the
\* screen: the effect that computes the portfolio return did not run
C24_Witness ==
    /\ mounted = 0
    /\ proc[1].pc = "done"
    /\ hist[1].callbacks = 1
    /\ hist[1].called = <<"SPY", "JNJ", "AAPL">>
    /\ Len(comp[1].investments) = 3
    /\ comp[1].portfolioReturn = Zero

\* C27: every load leaves the loading state, unless its timer is set beyond
\* the last time of the model; when loading is false either error is set
\* and investments is empty, or error is null and investments has three
\* entries.
C27_LoadEnds ==
    /\ \A f \in AppFlows :
          (proc[f].kind = "load" /\ comp[f].loading)
              ~> (~comp[f].loading \/ BeyondHorizon(f))
    /\ [](\A f \in Flows : ~comp[f].loading =>
             \/ comp[f].error # "null" /\ comp[f].investments = <<>>
             \/ comp[f].error = "null" /\ Len(comp[f].investments) = 3)

\* a load has ended with a failed fetch of its second symbol
C27_Witness ==
    /\ proc[1].kind = "load"
    /\ proc[1].pc = "done"
    /\ ~comp[1].loading
    /\ comp[1].error = "http"
    /\ hist[1].called = <<"SPY", "JNJ">>
====
